---- MODULE Spec2Model ----
(***************************************************************************)
(* State-machine model of the agent orchestration core:                    *)
(*   AgentRegistry          (agents/registry.py)                           *)
(*   AgentCommunicationBus  (agents/communication.py)                      *)
(*   AgentCoordinator       (agents/coordination.py)                       *)
(*   AgentLifecycle         (agents/lifecycle.py)                          *)
(* Every public method and every loop pass that runs under one lock is one *)
(* action.  Time is a discrete clock `now`.                                *)
(***************************************************************************)
EXTENDS Integers, Sequences, FiniteSets, TLC

\* ------------------------------------------------------------------ bounds
MaxTasks == 2
MaxTime == 1
MaxRetries == 1
MaxLimit == 2

TaskIds == 1..MaxTasks
Agents == {"w1", "w2"}
Priorities == {1, 5}
Timeouts == {0}
CapLists == {<<>>, <<"a">>}
TagLists == {<<>>}
None == "none"
COORDINATOR == "coordinator"
TIMED_OUT == "Task timed out"

\* TaskStatus (coordination.py:23-32)
\* The components, each with one reentrant lock (threading.RLock), and the
\* threads that enter them: the scheduler loop, the monitoring loop and a
\* caller of spawn_agent.
Components == {"coordinator", "lifecycle", "registry", "bus"}
Threads == {"scheduler", "monitor", "caller"}

\* The background loops: Bus relay, Coordinator scheduler, Lifecycle monitor.
Loops == {"relay", "scheduler", "heartbeat"}

\* A loop's iteration has run to its end: noted for a loop that had raised.
Iterated(f, l) == IF f[l] = "raised" THEN [f EXCEPT ![l] = "resumed"] ELSE f

TaskStatus == {"PENDING", "ASSIGNED", "RUNNING", "COMPLETED", "FAILED", "CANCELLED", "RETRYING"}
Terminal == {"COMPLETED", "FAILED", "CANCELLED"}

VARIABLES
    now,                  \* time.time()
    max_concurrent_tasks, \* AgentCoordinator.max_concurrent_tasks
    coord_running,        \* AgentCoordinator._running
    sched_pc,             \* position of _scheduler_loop inside one iteration
    tasks,                \* AgentCoordinator._tasks : task_id -> Task
    task_keys,            \* key order of _tasks (submission order)
    results,              \* AgentCoordinator._results : task_id -> TaskResult
    running_tasks,        \* AgentCoordinator._running_tasks, in dict order: <<task_id, agent_id>>
    pending_tasks,        \* AgentCoordinator._pending_tasks
    ready_tasks,          \* the sorted ready list of the last _schedule_tasks pass
    agents,               \* key order of AgentRegistry._agents
    metadata,             \* AgentRegistry._metadata : agent_id -> AgentMetadata
    queues,               \* AgentCommunicationBus._queues : agent_id -> MessageQueue
    instances,            \* AgentLifecycle._instances : agent_id -> AgentState
    ret,                  \* return value of the last public call that returns one
    delivered,            \* per task: TASK_ASSIGN messages put into a mailbox
    ever_assigned,        \* per task: the workers it was ever assigned to
    ever_failed,          \* the tasks that have had status FAILED or CANCELLED
    reported,             \* <<task, status>> a worker has reported over the Bus
    capabilities_index,   \* AgentRegistry._capabilities_index : capability -> set of ids
    queue_keys,           \* key order of AgentCommunicationBus._queues
    spawn_pc,             \* per id: a spawn_agent call suspended at "await initialize()"
    term_pc,              \* per id: position of a terminate_agent call in flight
    detached,             \* ids whose terminate_agent call holds an instance no longer in the table
    last_heartbeat,       \* AgentInstance.last_heartbeat, per id
    agent_heartbeat,      \* Agent.status.last_heartbeat, per id
    calls,                \* the callbacks and listeners invoked by the last Lifecycle operation
    throws,               \* the callbacks and listeners that raise when invoked
    life_running,         \* AgentLifecycle._running
    bus_running,          \* AgentCommunicationBus._running
    loop_alive,           \* per background loop: its thread has not left the loop
    locks,                \* per component: the owner of its reentrant lock and the depth
    thread_pc,            \* per thread: its position in the lock script it runs
    tag_index,            \* AgentRegistry._tag_index : tag -> set of ids
    subscribers,          \* AgentCommunicationBus._subscribers : topic -> set of ids
    history,              \* AgentCommunicationBus._history, followed in the runs of the Bus alone
    arrived,              \* per id: the messages put into its inbound mailbox, in order
    got,                  \* per id: the messages get_message has returned, in order
    request,              \* the request call in flight
    message,              \* the AgentMessage a client holds
    assigned_at,          \* per task: the time of its last assignment, followed in the
                          \* runs that watch the clock of the monitoring pass
    last_seen,            \* AgentMetadata.last_seen, per id, followed in the runs that
                          \* clean the Registry up
    relayed,              \* the messages the relay loop has passed to send, each with
                          \* what send returned, followed in the runs of the relay
    stopped,              \* AgentCoordinator.stop has returned and start has not been
                          \* called since
    term_calls,           \* per id: the terminate_agent calls of several callers in
                          \* flight, the runs of the shutdown hook and the calls that
                          \* returned True
    faulted               \* per background loop: "raised" after an iteration that raised,
                          \* "resumed" once a later iteration has run

vars == <<now, max_concurrent_tasks, coord_running, sched_pc, tasks, task_keys, results,
          running_tasks, pending_tasks, ready_tasks, agents, metadata, queues, instances,
          ret, delivered, ever_assigned, ever_failed, reported, capabilities_index, queue_keys,
          spawn_pc, term_pc, detached, last_heartbeat, agent_heartbeat, calls, throws,
          life_running, bus_running, loop_alive, faulted, locks, thread_pc, tag_index,
          subscribers, history, arrived, got, request, message, assigned_at, last_seen, relayed,
          stopped, term_calls>>

\* What single runs follow besides the components' own state.
extra_vars == <<assigned_at, last_seen, relayed, stopped, term_calls>>

\* The variables of the models of single components, the Registry's tag index apart.
side_vars == <<locks, thread_pc, subscribers, history, arrived, got, request, message,
               extra_vars>>

\* The variables of the models of single components.
aux_vars == <<side_vars, tag_index>>

\* The variables of the stepwise Lifecycle Manager.
call_vars == <<spawn_pc, term_pc, detached, last_heartbeat, agent_heartbeat, calls, throws>>

\* The running flags and the threads of the background loops.
loop_vars == <<life_running, bus_running, loop_alive>>

\* The variables of the stepwise Lifecycle Manager and of the background loops.
life_vars == <<spawn_pc, term_pc, detached, last_heartbeat, agent_heartbeat, calls, throws,
               life_running, bus_running, loop_alive, faulted>>

NoRet == [op |-> None, arg |-> 0, val |-> FALSE]

\* The callers whose terminate_agent calls for one id overlap; none of them
\* has called yet.
Callers == {"c1", "c2"}
NoCalls == [pc |-> [c \in Callers |-> "none"], hooks |-> 0, succeeded |-> 0]

\* get_message's None: no mailbox, or none arrived within the timeout.
NoMessage == [msg_id |-> None]

\* No call of AgentCommunicationBus.request is in flight.
NoRequest == [pc |-> "none"]

\* ------------------------------------------------------------ sequences
Range(s) == {s[i] : i \in 1..Len(s)}

RemoveFirst(s, x) ==
    IF \E i \in 1..Len(s) : s[i] = x
    THEN LET i == CHOOSE i \in 1..Len(s) : s[i] = x /\ \A j \in 1..(i - 1) : s[j] # x
         IN SubSeq(s, 1, i - 1) \o SubSeq(s, i + 1, Len(s))
    ELSE s

\* Take without the capacity bound.
TakeAll(s, n) == s

Take(s, n) == IF n <= 0 THEN <<>> ELSE SubSeq(s, 1, IF n < Len(s) THEN n ELSE Len(s))

\* dict helpers over <<key, value>> sequences (insertion ordered dict)
DictKeys(d) == {d[i][1] : i \in 1..Len(d)}
DictGet(d, k) == LET i == CHOOSE i \in 1..Len(d) : d[i][1] = k IN d[i][2]
DictDel(d, k) == SelectSeq(d, LAMBDA e : e[1] # k)
DictSet(d, k, v) ==
    IF k \in DictKeys(d)
    THEN [i \in 1..Len(d) |-> IF d[i][1] = k THEN <<k, v>> ELSE d[i]]
    ELSE Append(d, <<k, v>>)

\* ------------------------------------------------------------ registry
\* A lookup that returns the workers indexed under at least one of the names.
find_by_any_capability(ags, index, caps) ==
    IF caps = <<>>
    THEN Range(ags)
    ELSE {a \in Agents : \E i \in 1..Len(caps) :
              caps[i] \in DOMAIN index /\ a \in index[caps[i]]}

\* AgentRegistry.find_by_capabilities: all registered ids for an empty list,
\* else the intersection of the index sets of the named capabilities.
find_by_capabilities(ags, index, caps) ==
    IF caps = <<>>
    THEN Range(ags)
    ELSE {a \in Agents : \A i \in 1..Len(caps) :
              caps[i] \in DOMAIN index /\ a \in index[caps[i]]}

\* AgentRegistry.find_by_tags: all registered ids for an empty list, else the
\* intersection of the index sets of the named tags.
find_by_tags(ags, index, tgs) ==
    IF tgs = <<>>
    THEN Range(ags)
    ELSE {a \in Agents : \A i \in 1..Len(tgs) :
              tgs[i] \in DOMAIN index /\ a \in index[tgs[i]]}

\* AgentRegistry.update_agent_state: a no-op for an unknown id (the last_seen
\* refresh is not part of this model's state).
update_agent_state(md, a, st) ==
    IF a \in DOMAIN md THEN [md EXCEPT ![a].state = st] ELSE md

\* ------------------------------------------------------------ bus
Message(type, sender, recipient, task_id, n) ==
    [msg_type |-> type, sender_id |-> sender, recipient_id |-> recipient,
     task_id |-> task_id, retry_count |-> n]

\* AgentCommunicationBus.send: TRUE iff the recipient has a mailbox.
send_ok(qs, msg) == msg.recipient_id # "" /\ msg.recipient_id \in DOMAIN qs

send(qs, msg) ==
    IF send_ok(qs, msg)
    THEN [qs EXCEPT ![msg.recipient_id].inbound = Append(@, msg)]
    ELSE qs

\* ------------------------------------------------------------ coordinator
\* The state one Coordinator pass reads and writes, as a record.
CoordState ==
    [tasks |-> tasks, results |-> results, running |-> running_tasks,
     pending |-> pending_tasks, metadata |-> metadata, queues |-> queues,
     delivered |-> delivered, ever |-> ever_assigned]

SetStatus(c, t, st) ==
    [c EXCEPT !.tasks[t].status = st]

\* AgentCoordinator._are_dependencies_satisfied
are_dependencies_satisfied(c, task) ==
    \A i \in 1..Len(task.depends_on) :
        /\ task.depends_on[i] \in DOMAIN c.results
        /\ c.results[task.depends_on[i]].status = "COMPLETED"

\* The sort without reverse=True: stable, ascending.
InsertAscending(sorted, t, tk) ==
    LET k == Cardinality({i \in 1..Len(sorted) : tk[sorted[i]].priority <= tk[t].priority})
    IN SubSeq(sorted, 1, k) \o <<t>> \o SubSeq(sorted, k + 1, Len(sorted))

\* ready_tasks.sort(key=priority, reverse=True): stable, descending.
InsertByPriority(sorted, t, tk) ==
    LET k == Cardinality({i \in 1..Len(sorted) : tk[sorted[i]].priority >= tk[t].priority})
    IN SubSeq(sorted, 1, k) \o <<t>> \o SubSeq(sorted, k + 1, Len(sorted))

RECURSIVE SortByPriority(_, _)
SortByPriority(s, tk) ==
    IF s = <<>> THEN <<>>
    ELSE InsertByPriority(SortByPriority(SubSeq(s, 1, Len(s) - 1), tk), s[Len(s)], tk)

\* The ready list of _schedule_tasks: pending tasks whose dependencies are satisfied.
ReadyList(c) ==
    SortByPriority(SelectSeq(c.pending, LAMBDA t : are_dependencies_satisfied(c, c.tasks[t])),
                   c.tasks)

running_count(c, a) == Cardinality({i \in 1..Len(c.running) : c.running[i][2] = a})

Score(c, a) == 10 - 2 * running_count(c, a)

\* A selection that takes any idle candidate, whatever its score.
select_any_idle_candidate(c, task) ==
    LET cands == find_by_capabilities(agents, capabilities_index, task.required_capabilities)
        tagged == IF task.required_tags = <<>> THEN cands
                  ELSE {a \in cands : a \in DOMAIN c.metadata /\
                           \A i \in 1..Len(task.required_tags) :
                               task.required_tags[i] \in Range(c.metadata[a].tags)}
    IN {a \in tagged : a \in DOMAIN c.metadata /\ c.metadata[a].state = "idle"}

\* AgentCoordinator._select_agent_for_task: the set of agents the call may
\* return (empty: None).  Candidates come in registration order when no
\* capability is required and in set-iteration order otherwise; the sort by
\* score is stable, so the first of the best-scored candidates wins.
select_agent_for_task(c, task) ==
    LET cands == find_by_capabilities(agents, capabilities_index, task.required_capabilities)
        tagged == IF task.required_tags = <<>> THEN cands
                  ELSE {a \in cands : a \in DOMAIN c.metadata /\
                           \A i \in 1..Len(task.required_tags) :
                               task.required_tags[i] \in Range(c.metadata[a].tags)}
        scored == {a \in tagged : a \in DOMAIN c.metadata /\ c.metadata[a].state = "idle"}
        best == {a \in scored : \A b \in scored : Score(c, a) >= Score(c, b)}
        pos(a) == CHOOSE i \in 1..Len(agents) : agents[i] = a
    IN IF task.required_capabilities = <<>>
       THEN {a \in best : \A b \in best : pos(a) <= pos(b)}
       ELSE best

\* AgentCoordinator._assign_task_to_agent
assign_task_to_agent(c, t, a) ==
    LET msg == Message("TASK_ASSIGN", COORDINATOR, a, t, c.tasks[t].retry_count)
        c1 == SetStatus([c EXCEPT !.tasks[t].assigned_to = a], t, "ASSIGNED")
    IN [c1 EXCEPT
          !.running = DictSet(@, t, a),
          !.pending = RemoveFirst(@, t),
          !.queues = send(@, msg),
          !.delivered[t] = IF send_ok(c.queues, msg) THEN @ + 1 ELSE @,
          !.ever[t] = @ \cup {a},
          !.metadata = update_agent_state(@, a, "busy")]

\* _handle_task_complete that stores the result but leaves the task's status alone.
handle_task_complete_keeps_status(c, t, result) ==
    LET c1 == [c EXCEPT !.running = DictDel(@, t)]
        c2 == IF t \in DOMAIN c1.tasks /\ result.agent_id # None
              THEN [c1 EXCEPT !.metadata = update_agent_state(@, result.agent_id, "idle")]
              ELSE c1
    IN [c2 EXCEPT !.results = [x \in DOMAIN @ \cup {t} |-> IF x = t THEN result ELSE @[x]]]

\* AgentCoordinator._handle_task_complete
handle_task_complete(c, t, result) ==
    LET c1 == [c EXCEPT !.running = DictDel(@, t)]
        c2 == IF t \in DOMAIN c1.tasks
              THEN LET c3 == SetStatus(c1, t, result.status)
                   IN IF result.agent_id # None
                      THEN [c3 EXCEPT !.metadata = update_agent_state(@, result.agent_id, "idle")]
                      ELSE c3
              ELSE c1
    IN [c2 EXCEPT !.results = [x \in DOMAIN @ \cup {t} |-> IF x = t THEN result ELSE @[x]]]

\* AgentCoordinator._handle_task_timeout
handle_task_timeout(c, t, a) ==
    IF c.tasks[t].retry_count < c.tasks[t].max_retries
    THEN LET c1 == SetStatus([c EXCEPT !.tasks[t].retry_count = @ + 1], t, "RETRYING")
         IN [c1 EXCEPT
               !.tasks[t].assigned_to = None,
               !.running = DictDel(@, t),
               !.pending = Append(@, t),
               !.metadata = update_agent_state(@, a, "idle")]
    ELSE handle_task_complete(c, t, [status |-> "FAILED", error |-> TIMED_OUT, agent_id |-> a])

\* The for-loop of _schedule_tasks over the capacity slice of the ready list:
\* the set of states it can end in.
RECURSIVE ScheduleLoop(_, _)
ScheduleLoop(c, list) ==
    IF list = <<>> THEN {c}
    ELSE LET t == Head(list)
             sel == select_agent_for_task(c, c.tasks[t])
         IN IF sel = {} THEN ScheduleLoop(c, Tail(list))
            ELSE UNION {ScheduleLoop(assign_task_to_agent(c, t, a), Tail(list)) : a \in sel}

\* The for-loop of _monitor_tasks over list(self._running_tasks.items()).
TimedOut(task) == now - task.created_at > task.timeout

RECURSIVE MonitorLoop(_, _)
MonitorLoop(c, items) ==
    IF items = <<>> THEN c
    ELSE LET t == Head(items)[1]
             a == Head(items)[2]
         IN IF t \in DOMAIN c.tasks /\ TimedOut(c.tasks[t])
            THEN MonitorLoop(handle_task_timeout(c, t, a), Tail(items))
            ELSE MonitorLoop(c, Tail(items))

\* Write a Coordinator pass's result back to the variables.
Commit(c) ==
    /\ tasks' = c.tasks
    /\ results' = c.results
    /\ running_tasks' = c.running
    /\ pending_tasks' = c.pending
    /\ metadata' = c.metadata
    /\ queues' = c.queues
    /\ delivered' = c.delivered
    /\ ever_assigned' = c.ever
    /\ ever_failed' = ever_failed \cup
           {t \in DOMAIN c.tasks : c.tasks[t].status \in {"FAILED", "CANCELLED"}}

\* ------------------------------------------------------------ initial state
\* MultiAgentOrchestrator.__init__ followed by initialize(spawn_all_agents=False):
\* empty registry, bus relay and coordinator scheduler started, no worker spawned.
CoordInit(limits) ==
    /\ now = 0
    /\ max_concurrent_tasks \in limits
    /\ coord_running = TRUE
    /\ sched_pc = "schedule"
    /\ tasks = <<>>
    /\ task_keys = <<>>
    /\ results = <<>>
    /\ running_tasks = <<>>
    /\ pending_tasks = <<>>
    /\ ready_tasks = <<>>
    /\ agents = <<>>
    /\ metadata = <<>>
    /\ capabilities_index = <<>>
    /\ queues = <<>>
    /\ queue_keys = <<>>
    /\ instances = <<>>
    /\ ret = NoRet
    /\ delivered = [t \in TaskIds |-> 0]
    /\ ever_assigned = [t \in TaskIds |-> {}]
    /\ ever_failed = {}
    /\ reported = {}

\* AgentLifecycle.__init__, the callbacks and listeners added by the caller,
\* start_monitoring and AgentCommunicationBus.start: no call in flight, the
\* three background loops running.  T: the sets of raising callbacks to draw from.
LifeInit(T) ==
    /\ spawn_pc = [a \in Agents |-> "none"]
    /\ term_pc = [a \in Agents |-> "none"]
    /\ detached = {}
    /\ last_heartbeat = [a \in Agents |-> 0]
    /\ agent_heartbeat = [a \in Agents |-> 0]
    /\ calls = <<>>
    /\ throws \in T
    /\ life_running = TRUE
    /\ bus_running = TRUE
    /\ loop_alive = [l \in Loops |-> TRUE]
    /\ faulted = [l \in Loops |-> "no"]

\* The components' locks are free and no thread is inside a locked section;
\* the Registry and the Bus are empty.  msgs: the messages to draw from.
AuxInitWith(msgs) ==
    /\ locks = [c \in Components |-> [owner |-> None, depth |-> 0]]
    /\ thread_pc = [th \in Threads |-> 1]
    /\ tag_index = <<>>
    /\ subscribers = <<>>
    /\ history = <<>>
    /\ arrived = [a \in Agents |-> <<>>]
    /\ got = [a \in Agents |-> <<>>]
    /\ request = NoRequest
    /\ message \in msgs
    /\ assigned_at = [t \in TaskIds |-> None]
    /\ last_seen = [a \in Agents |-> 0]
    /\ relayed = <<>>
    /\ stopped = FALSE
    /\ term_calls = [a \in Agents |-> NoCalls]

AuxInit == AuxInitWith({NoMessage})

InitWith(limits) == CoordInit(limits) /\ LifeInit({{}}) /\ AuxInit

Init == InitWith(1..MaxLimit)

coord_vars == <<tasks, results, running_tasks, pending_tasks, metadata, queues,
                delivered, ever_assigned, ever_failed>>
registry_vars == <<agents, metadata, capabilities_index>>
bus_vars == <<queues, queue_keys>>

\* ------------------------------------------------------------ time
Tick ==
    /\ now < MaxTime
    /\ now' = now + 1
    /\ ret' = NoRet
    /\ UNCHANGED life_vars
    /\ UNCHANGED <<max_concurrent_tasks, coord_running, sched_pc, task_keys, ready_tasks,
                   agents, capabilities_index, queue_keys, instances, reported>>
    /\ UNCHANGED coord_vars
    /\ UNCHANGED aux_vars

\* ------------------------------------------------------------ coordinator actions
NewTask(t, prio, to, mr, deps, caps, tgs) ==
    [task_id |-> t, priority |-> prio, timeout |-> to, max_retries |-> mr,
     retry_count |-> 0, created_at |-> now, assigned_to |-> None, status |-> "PENDING",
     depends_on |-> deps, required_capabilities |-> caps, required_tags |-> tgs]

\* AgentCoordinator.submit_task, with a freshly generated task id
SubmitTask(t, prio, to, mr, deps, caps, tgs) ==
    /\ t \notin DOMAIN tasks
    /\ tasks' = [x \in DOMAIN tasks \cup {t} |->
                    IF x = t THEN NewTask(t, prio, to, mr, deps, caps, tgs) ELSE tasks[x]]
    /\ task_keys' = Append(task_keys, t)
    /\ pending_tasks' = Append(pending_tasks, t)
    /\ ret' = NoRet
    /\ UNCHANGED life_vars
    /\ UNCHANGED <<now, max_concurrent_tasks, coord_running, sched_pc, results, running_tasks,
                   ready_tasks, agents, metadata, capabilities_index, queues, queue_keys,
                   instances, delivered, ever_assigned, ever_failed,
                   reported>>
    /\ UNCHANGED aux_vars

\* cancel_task that marks the task CANCELLED but leaves it in the pending queue.
CancelTaskKeepsQueued(t) ==
    /\ IF t \in DOMAIN tasks /\ tasks[t].status = "PENDING"
       THEN /\ tasks' = [tasks EXCEPT ![t].status = "CANCELLED"]
            /\ ret' = [op |-> "cancel_task", arg |-> t, val |-> TRUE]
       ELSE /\ UNCHANGED tasks
            /\ ret' = [op |-> "cancel_task", arg |-> t, val |-> FALSE]
    /\ UNCHANGED <<now, max_concurrent_tasks, coord_running, sched_pc, task_keys, results,
                   running_tasks, pending_tasks, ready_tasks, agents, metadata,
                   capabilities_index, queues, queue_keys, instances, delivered,
                   ever_assigned, reported>>
    /\ UNCHANGED life_vars
    /\ ever_failed' = IF t \in DOMAIN tasks /\ tasks[t].status = "PENDING"
                      THEN ever_failed \cup {t} ELSE ever_failed
    /\ UNCHANGED aux_vars

\* AgentCoordinator.cancel_task
CancelTask(t) ==
    /\ IF t \in DOMAIN tasks /\ tasks[t].status = "PENDING"
       THEN /\ tasks' = [tasks EXCEPT ![t].status = "CANCELLED"]
            /\ pending_tasks' = RemoveFirst(pending_tasks, t)
            /\ ret' = [op |-> "cancel_task", arg |-> t, val |-> TRUE]
       ELSE /\ UNCHANGED <<tasks, pending_tasks>>
            /\ ret' = [op |-> "cancel_task", arg |-> t, val |-> FALSE]
    /\ UNCHANGED <<now, max_concurrent_tasks, coord_running, sched_pc, task_keys, results,
                   running_tasks, ready_tasks, agents, metadata, capabilities_index, queues,
                   queue_keys, instances, delivered, ever_assigned, reported>>
    /\ UNCHANGED life_vars
    /\ ever_failed' = IF t \in DOMAIN tasks /\ tasks[t].status = "PENDING"
                      THEN ever_failed \cup {t} ELSE ever_failed
    /\ UNCHANGED aux_vars

\* The body of AgentCoordinator._schedule_tasks.
schedule_pass ==
    IF Len(running_tasks) >= max_concurrent_tasks
    THEN UNCHANGED <<ready_tasks>> /\ UNCHANGED coord_vars
    ELSE LET ready == ReadyList(CoordState)
             slice == Take(ready, max_concurrent_tasks - Len(running_tasks))
         IN /\ ready_tasks' = ready
            /\ \E c \in ScheduleLoop(CoordState, slice) : Commit(c)

\* AgentCoordinator._schedule_tasks, the first half of a _scheduler_loop iteration
schedule_tasks ==
    /\ coord_running
    /\ loop_alive["scheduler"]
    /\ sched_pc = "schedule"
    /\ sched_pc' = "monitor"
    /\ schedule_pass
    /\ ret' = NoRet
    /\ UNCHANGED <<call_vars, loop_vars>>
    /\ faulted' = Iterated(faulted, "scheduler")
    /\ UNCHANGED <<now, max_concurrent_tasks, coord_running, task_keys, agents,
                   capabilities_index, queue_keys, instances, reported>>

ScheduleTasks == schedule_tasks /\ UNCHANGED aux_vars

\* The same pass with the time of each assignment it makes written down.
ScheduleTasksTimed ==
    /\ schedule_tasks
    /\ assigned_at' = [t \in TaskIds |->
                          IF t \in DictKeys(running_tasks') \ DictKeys(running_tasks)
                          THEN now ELSE assigned_at[t]]
    /\ UNCHANGED <<locks, thread_pc, subscribers, history, arrived, got, request, message,
                   tag_index, last_seen, relayed, stopped, term_calls>>

\* AgentCoordinator._monitor_tasks, the second half of a _scheduler_loop iteration
MonitorTasks ==
    /\ coord_running
    /\ loop_alive["scheduler"]
    /\ sched_pc = "monitor"
    /\ sched_pc' = "schedule"
    /\ Commit(MonitorLoop(CoordState, running_tasks))
    /\ ret' = NoRet
    /\ UNCHANGED <<call_vars, loop_vars>>
    /\ faulted' = Iterated(faulted, "scheduler")
    /\ UNCHANGED <<now, max_concurrent_tasks, coord_running, task_keys, ready_tasks, agents,
                   capabilities_index, queue_keys, instances, reported>>
    /\ UNCHANGED aux_vars

\* The absent TaskResult (Python None), as a record so that it compares with results.
NoResult == [status |-> None, error |-> None, agent_id |-> None]

\* AgentCoordinator.get_result
get_result(res, t) == IF t \in DOMAIN res THEN res[t] ELSE NoResult

\* One poll of AgentCoordinator.wait_for_task: the stored result when it has a terminal
\* status, None otherwise (the caller then sleeps and polls again until its timeout).
wait_for_task_poll(res, t) ==
    IF t \in DOMAIN res /\ res[t].status \in Terminal THEN res[t] ELSE NoResult

\* The completion entry point: _handle_task_complete called with the result
\* a worker produced for a task it was assigned (possibly late or repeated).
RecordResult(t, st, a) ==
    /\ t \in DOMAIN tasks
    /\ a \in ever_assigned[t]
    /\ Commit(handle_task_complete(CoordState, t,
                                   [status |-> st, error |-> None, agent_id |-> a]))
    /\ ret' = NoRet
    /\ UNCHANGED life_vars
    /\ UNCHANGED <<now, max_concurrent_tasks, coord_running, sched_pc, task_keys, ready_tasks,
                   agents, capabilities_index, queue_keys, instances, reported>>
    /\ UNCHANGED aux_vars

\* ------------------------------------------------------------ lifecycle actions
AgentTypes == {"skilled", "plain", "expert"}

\* The capabilities the agent class of a type advertises.
ClassCapabilities(type) ==
    IF type = "skilled" THEN <<"a">>
    ELSE IF type = "expert" THEN <<"a", "b">>
    ELSE <<>>

\* AgentRegistry._index_capabilities
index_capabilities(index, a, caps) ==
    [k \in DOMAIN index \cup Range(caps) |->
        IF k \in Range(caps)
        THEN (IF k \in DOMAIN index THEN index[k] ELSE {}) \cup {a}
        ELSE index[k]]

\* An unregister that leaves the capability index as it is.
keep_capabilities_index(index, a, caps) == index

\* AgentRegistry.unregister, index part: discard the id from its capabilities' sets.
unindex_capabilities(index, a, caps) ==
    [k \in DOMAIN index |-> IF k \in Range(caps) THEN index[k] \ {a} ELSE index[k]]

\* AgentRegistry._index_tags
index_tags(index, a, tgs) ==
    [k \in DOMAIN index \cup Range(tgs) |->
        IF k \in Range(tgs)
        THEN (IF k \in DOMAIN index THEN index[k] ELSE {}) \cup {a}
        ELSE index[k]]

\* AgentRegistry.unregister, index part: discard the id from its tags' sets.
unindex_tags(index, a, tgs) ==
    [k \in DOMAIN index |-> IF k \in Range(tgs) THEN index[k] \ {a} ELSE index[k]]

Without(f, a) == [x \in DOMAIN f \ {a} |-> f[x]]
With(f, a, v) == [x \in DOMAIN f \cup {a} |-> IF x = a THEN v ELSE f[x]]

EmptyQueue == [inbound |-> <<>>, outbound |-> <<>>]

\* AgentLifecycle.spawn_agent with an initialize hook that succeeds:
\* instance record, mailboxes, READY, Registry entry; if the Registry already
\* holds the id, register raises and the instance and mailboxes are discarded.
SpawnAgent(type, a, tgs) ==
    /\ a \notin DOMAIN instances
    /\ IF a \in Range(agents)
       THEN /\ queues' = Without(queues, a)
            /\ queue_keys' = SelectSeq(queue_keys, LAMBDA k : k # a)
            /\ UNCHANGED <<instances, agents, metadata, capabilities_index, tag_index>>
       ELSE /\ instances' = With(instances, a, "READY")
            /\ queues' = IF a \in DOMAIN queues THEN queues ELSE With(queues, a, EmptyQueue)
            /\ queue_keys' = IF a \in DOMAIN queues THEN queue_keys ELSE Append(queue_keys, a)
            /\ agents' = Append(agents, a)
            /\ metadata' = With(metadata, a,
                                [agent_type |-> type, capabilities |-> ClassCapabilities(type),
                                 state |-> "idle", tags |-> tgs])
            /\ capabilities_index' = index_capabilities(capabilities_index, a,
                                                        ClassCapabilities(type))
            /\ tag_index' = index_tags(tag_index, a, tgs)
    /\ ret' = NoRet
    /\ UNCHANGED life_vars
    /\ UNCHANGED <<now, max_concurrent_tasks, coord_running, sched_pc, tasks, task_keys,
                   results, running_tasks, pending_tasks, ready_tasks, delivered,
                   ever_assigned, ever_failed,
                   reported>>
    /\ UNCHANGED side_vars

\* terminate_agent that also puts the tasks assigned to the worker back in the pending queue.
TerminateAgentRequeues(a, hook_ok) ==
    /\ a \in DOMAIN instances
    /\ IF a \in Range(agents)
       THEN /\ agents' = SelectSeq(agents, LAMBDA k : k # a)
            /\ capabilities_index' =
                   unindex_capabilities(capabilities_index, a, metadata[a].capabilities)
            /\ tag_index' = unindex_tags(tag_index, a, metadata[a].tags)
            /\ metadata' = Without(metadata, a)
            /\ queues' = Without(queues, a)
            /\ queue_keys' = SelectSeq(queue_keys, LAMBDA k : k # a)
            /\ instances' = Without(instances, a)
       ELSE /\ instances' = [instances EXCEPT ![a] = "ERROR"]
            /\ UNCHANGED <<agents, capabilities_index, tag_index, metadata, queues, queue_keys>>
    /\ running_tasks' = SelectSeq(running_tasks, LAMBDA e : e[2] # a)
    /\ pending_tasks' = pending_tasks \o
           SelectSeq([i \in 1..Len(running_tasks) |-> running_tasks[i][1]],
                     LAMBDA t : DictGet(running_tasks, t) = a)
    /\ tasks' = [t \in DOMAIN tasks |->
                    IF t \in DictKeys(running_tasks) /\ DictGet(running_tasks, t) = a
                    THEN [tasks[t] EXCEPT !.status = "PENDING", !.assigned_to = None]
                    ELSE tasks[t]]
    /\ ret' = NoRet
    /\ UNCHANGED life_vars
    /\ UNCHANGED <<now, max_concurrent_tasks, coord_running, sched_pc, task_keys,
                   results, ready_tasks, delivered, ever_assigned, ever_failed, reported>>
    /\ UNCHANGED side_vars

\* AgentLifecycle.terminate_agent: shutdown hook, then removal from the
\* Registry, the Bus and the instance table.  Registry.unregister raises for
\* an id it does not hold, which ends the removal before the Bus is reached.
TerminateAgent(a, hook_ok) ==
    /\ a \in DOMAIN instances
    /\ IF a \in Range(agents)
       THEN /\ agents' = SelectSeq(agents, LAMBDA k : k # a)
            /\ capabilities_index' =
                   unindex_capabilities(capabilities_index, a, metadata[a].capabilities)
            /\ tag_index' = unindex_tags(tag_index, a, metadata[a].tags)
            /\ metadata' = Without(metadata, a)
            /\ queues' = Without(queues, a)
            /\ queue_keys' = SelectSeq(queue_keys, LAMBDA k : k # a)
            /\ instances' = Without(instances, a)
       ELSE /\ instances' = [instances EXCEPT ![a] = "ERROR"]
            /\ UNCHANGED <<agents, capabilities_index, tag_index, metadata, queues, queue_keys>>
    /\ ret' = NoRet
    /\ UNCHANGED life_vars
    /\ UNCHANGED <<now, max_concurrent_tasks, coord_running, sched_pc, tasks, task_keys,
                   results, running_tasks, pending_tasks, ready_tasks, delivered,
                   ever_assigned, ever_failed,
                   reported>>
    /\ UNCHANGED side_vars

\* ------------------------------------------------------------ workers and relay
\* A worker takes its next inbound message (get_message), handles it
\* (Agent.handle_message) and puts the reply, addressed to the sender of the
\* message, in its outbound mailbox (send_message): _handle_task_assign for
\* an assignment, _handle_heartbeat for a heartbeat, which sets the worker's
\* own status.last_heartbeat; a kind without a handler gets no reply.
WorkerHandle(a, ok) ==
    /\ a \in DOMAIN queues
    /\ queues[a].inbound # <<>>
    /\ LET msg == Head(queues[a].inbound)
           type == IF ok THEN "TASK_COMPLETE" ELSE "TASK_FAIL"
           reply == Message(type, a, msg.sender_id, msg.task_id, msg.retry_count)
           status == Message("STATUS_RESPONSE", a, msg.sender_id, 0, 0)
       IN CASE msg.msg_type = "TASK_ASSIGN" ->
                 /\ queues' = [queues EXCEPT ![a].inbound = Tail(@),
                                             ![a].outbound = Append(@, reply)]
                 /\ reported' = reported \cup
                                   {<<msg.task_id, IF ok THEN "COMPLETED" ELSE "FAILED">>}
                 /\ UNCHANGED agent_heartbeat
            [] msg.msg_type = "HEARTBEAT" ->
                 /\ queues' = [queues EXCEPT ![a].inbound = Tail(@),
                                             ![a].outbound = Append(@, status)]
                 /\ agent_heartbeat' = [agent_heartbeat EXCEPT ![a] = now]
                 /\ UNCHANGED reported
            [] OTHER ->
                 /\ queues' = [queues EXCEPT ![a].inbound = Tail(@)]
                 /\ UNCHANGED <<reported, agent_heartbeat>>
    /\ ret' = NoRet
    /\ UNCHANGED <<now, max_concurrent_tasks, coord_running, sched_pc, tasks, task_keys,
                   results, running_tasks, pending_tasks, ready_tasks, agents, metadata,
                   capabilities_index, queue_keys, instances, delivered, ever_assigned,
                   ever_failed>>
    /\ UNCHANGED <<spawn_pc, term_pc, detached, last_heartbeat, calls, throws,
                   life_running, bus_running, loop_alive, faulted>>
    /\ UNCHANGED aux_vars

\* A relay pass that takes the message placed last in each outbound mailbox.
RECURSIVE DeliveryPassNewestFirst(_, _)
DeliveryPassNewestFirst(qs, keys) ==
    IF keys = <<>> THEN qs
    ELSE LET a == Head(keys)
             out == qs[a].outbound
         IN IF out = <<>>
            THEN DeliveryPassNewestFirst(qs, Tail(keys))
            ELSE DeliveryPassNewestFirst(
                     send([qs EXCEPT ![a].outbound = SubSeq(out, 1, Len(out) - 1)],
                          out[Len(out)]),
                     Tail(keys))

\* One pass of AgentCommunicationBus._delivery_loop: for every mailbox pair in
\* dict order, take one outbound message and pass it to send.
RECURSIVE DeliveryPass(_, _)
DeliveryPass(qs, keys) ==
    IF keys = <<>> THEN qs
    ELSE LET a == Head(keys)
         IN IF qs[a].outbound = <<>>
            THEN DeliveryPass(qs, Tail(keys))
            ELSE DeliveryPass(send([qs EXCEPT ![a].outbound = Tail(@)], Head(qs[a].outbound)),
                              Tail(keys))

\* One iteration of _delivery_loop that finds a message to relay.
delivery_loop ==
    /\ bus_running
    /\ loop_alive["relay"]
    /\ \E a \in DOMAIN queues : queues[a].outbound # <<>>
    /\ queues' = DeliveryPass(queues, queue_keys)
    /\ ret' = NoRet
    /\ UNCHANGED <<call_vars, loop_vars>>
    /\ faulted' = Iterated(faulted, "relay")
    /\ UNCHANGED <<now, max_concurrent_tasks, coord_running, sched_pc, tasks, task_keys,
                   results, running_tasks, pending_tasks, ready_tasks, agents, metadata,
                   capabilities_index, queue_keys, instances, delivered, ever_assigned, ever_failed,
                   reported>>

DeliveryLoop == delivery_loop /\ UNCHANGED aux_vars

\* The calls of send one pass of _delivery_loop makes, in order, each with
\* the value send returns.
RECURSIVE RelayCalls(_, _)
RelayCalls(qs, keys) ==
    IF keys = <<>> THEN <<>>
    ELSE LET a == Head(keys)
         IN IF qs[a].outbound = <<>>
            THEN RelayCalls(qs, Tail(keys))
            ELSE LET msg == Head(qs[a].outbound)
                     taken == [qs EXCEPT ![a].outbound = Tail(@)]
                 IN <<[msg |-> msg, ok |-> send_ok(taken, msg)]>>
                    \o RelayCalls(send(taken, msg), Tail(keys))

\* The same iteration with its calls of send and what the inbound mailboxes
\* took in written down.
DeliveryLoopLogged ==
    /\ delivery_loop
    /\ relayed' = relayed \o RelayCalls(queues, queue_keys)
    /\ arrived' = [a \in Agents |->
                      IF a \in DOMAIN queues
                      THEN arrived[a] \o SubSeq(queues'[a].inbound, Len(queues[a].inbound) + 1,
                                                Len(queues'[a].inbound))
                      ELSE arrived[a]]
    /\ UNCHANGED <<locks, thread_pc, subscribers, history, got, request, message, tag_index,
                   assigned_at, last_seen, stopped, term_calls>>

\* The agent type each worker id is spawned with.
TypeOf(a) == IF a = "w1" THEN "skilled" ELSE "plain"

\* ------------------------------------------------------------ lifecycle, step by step
\* spawn_agent and terminate_agent are coroutines: each runs up to its next
\* "await" and is resumed later, so calls for the same id overlap.  The
\* actions below are the pieces between two suspension points.

\* The callbacks added with add_state_change_callback and add_error_callback,
\* and the listeners added to the Registry, in the order they were added.
StateCallbacks == <<"s1", "s2">>
ErrorCallbacks == <<"e1", "e2">>
Listeners == <<"l1", "l2">>

\* Either no callback raises, or the first of each list does.
ThrowSets == {{}, {"s1", "e1", "l1"}}

HeartbeatInterval == 1
MaxLifeTime == 3
MaxInbox == 1

\* AgentLifecycle.is_alive
Alive == {"READY", "BUSY", "IDLE"}

\* The Lifecycle Manager's view of itself, the Registry and the Bus, with the
\* callbacks invoked so far by the running operation and whether an
\* exception is propagating.
LifeState ==
    [instances |-> instances, agents |-> agents, metadata |-> metadata,
     index |-> capabilities_index, tag_index |-> tag_index, queues |-> queues, queue_keys |-> queue_keys,
     calls |-> <<>>, raised |-> FALSE]

\* A notification loop without the try/except around each call: the first
\* raising callback ends the loop and the exception propagates.
RECURSIVE InvokeAllUnguarded(_, _, _, _)
InvokeAllUnguarded(s, cbs, a, event) ==
    IF cbs = <<>> THEN s
    ELSE LET called == [s EXCEPT !.calls =
                           Append(@, [cb |-> Head(cbs), agent |-> a, event |-> event])]
         IN IF Head(cbs) \in throws
            THEN [called EXCEPT !.raised = TRUE]
            ELSE InvokeAllUnguarded(called, Tail(cbs), a, event)

\* "for callback in callbacks: try: callback(...) except Exception: pass":
\* every callback is invoked, what a callback raises is discarded.
RECURSIVE InvokeAll(_, _, _, _)
InvokeAll(s, cbs, a, event) ==
    IF cbs = <<>> THEN s
    ELSE LET called == [s EXCEPT !.calls =
                           Append(@, [cb |-> Head(cbs), agent |-> a, event |-> event])]
         IN InvokeAll(called, Tail(cbs), a, event)

\* AgentLifecycle._notify_state_change
notify_state_change(s, a, new_state) == InvokeAll(s, StateCallbacks, a, new_state)

\* AgentLifecycle._notify_error
notify_error(s, a) == InvokeAll(s, ErrorCallbacks, a, "error")

\* AgentRegistry._notify_listeners
notify_listeners(s, a, event) == InvokeAll(s, Listeners, a, event)

\* "instance.state = st" on the instance a call holds; the write shows in
\* the table only if that instance is still the table's entry.
set_state(s, a, st, attached) ==
    IF attached /\ a \in DOMAIN s.instances
    THEN [s EXCEPT !.instances = [@ EXCEPT ![a] = st]]
    ELSE s

\* AgentRegistry.register
registry_register(s, a, type, tgs) ==
    IF a \in Range(s.agents)
    THEN [s EXCEPT !.raised = TRUE]
    ELSE notify_listeners(
             [s EXCEPT !.agents = Append(@, a),
                       !.metadata = With(@, a, [agent_type |-> type,
                                                capabilities |-> ClassCapabilities(type),
                                                state |-> "idle", tags |-> tgs]),
                       !.index = index_capabilities(@, a, ClassCapabilities(type)),
                       !.tag_index = index_tags(@, a, tgs)],
             a, "registered")

\* AgentRegistry.unregister
registry_unregister(s, a) ==
    IF a \notin Range(s.agents)
    THEN [s EXCEPT !.raised = TRUE]
    ELSE notify_listeners(
             [s EXCEPT !.agents = SelectSeq(@, LAMBDA k : k # a),
                       !.index = unindex_capabilities(@, a, s.metadata[a].capabilities),
                       !.tag_index = unindex_tags(@, a, s.metadata[a].tags),
                       !.metadata = Without(@, a)],
             a, "unregistered")

\* A register_agent that builds a new MessageQueue for an id that has one.
bus_register_anew(s, a) ==
    [s EXCEPT !.queues = With(@, a, EmptyQueue),
              !.queue_keys = IF a \in DOMAIN s.queues THEN @ ELSE Append(@, a)]

\* AgentCommunicationBus.register_agent
bus_register(s, a) ==
    IF a \in DOMAIN s.queues THEN s
    ELSE [s EXCEPT !.queues = With(@, a, EmptyQueue), !.queue_keys = Append(@, a)]

\* AgentCommunicationBus.unregister_agent
bus_unregister(s, a) ==
    [s EXCEPT !.queues = Without(@, a), !.queue_keys = SelectSeq(@, LAMBDA k : k # a)]

\* A rollback that discards the instance and leaves the mailboxes registered.
spawn_rollback_keeps_mailboxes(s, a) ==
    [s EXCEPT !.instances = Without(@, a), !.raised = FALSE]

\* spawn_agent's "except Exception" block: discard the instance and the mailboxes.
spawn_rollback(s, a) ==
    [bus_unregister([s EXCEPT !.instances = Without(@, a)], a) EXCEPT !.raised = FALSE]

\* terminate_agent's "except Exception" block: ERROR, error callbacks, then
\* the forced cleanup, which ends silently at the first step that raises.
terminate_failed(s, a, attached) ==
    LET e == notify_error(set_state([s EXCEPT !.raised = FALSE], a, "ERROR", attached), a)
        u == registry_unregister(e, a)
    IN IF e.raised THEN e
       ELSE IF u.raised THEN [u EXCEPT !.raised = FALSE]
       ELSE [bus_unregister(u, a) EXCEPT !.instances = Without(@, a)]

\* Write an operation's result back to the variables.
CommitLife(s) ==
    /\ instances' = s.instances
    /\ agents' = s.agents
    /\ metadata' = s.metadata
    /\ capabilities_index' = s.index
    /\ tag_index' = s.tag_index
    /\ queues' = s.queues
    /\ queue_keys' = s.queue_keys
    /\ calls' = s.calls

\* What the Lifecycle Manager never writes.
task_vars == <<max_concurrent_tasks, coord_running, sched_pc, tasks, task_keys, results,
               running_tasks, pending_tasks, ready_tasks, delivered, ever_assigned,
               ever_failed, reported>>

\* What a Lifecycle call gave its caller: the value returned, or the
\* exception raised (ValueError, or what a hook raised).
Returned(op, a, val, err) == [op |-> op, arg |-> a, val |-> val, error |-> err]

\* A spawn_agent without the check for an existing id: the new instance
\* replaces the one the table holds.
SpawnBeginOverwrites(type, a) ==
    /\ type \in AgentTypes
    /\ spawn_pc[a] = "none"
    /\ CommitLife(notify_state_change(
                      bus_register([LifeState EXCEPT !.instances = With(@, a, "INITIALIZING")],
                                   a),
                      a, "INITIALIZING"))
    /\ ret' = NoRet
    /\ spawn_pc' = [spawn_pc EXCEPT ![a] = "init"]
    /\ last_heartbeat' = [last_heartbeat EXCEPT ![a] = now]
    /\ agent_heartbeat' = [agent_heartbeat EXCEPT ![a] = now]
    /\ UNCHANGED <<now, term_pc, detached, throws, life_running, bus_running, loop_alive,
                   faulted>>
    /\ UNCHANGED task_vars
    /\ UNCHANGED side_vars

\* spawn_agent up to "await instance.agent.initialize()": the two checks,
\* the instance record, the mailboxes and the INITIALIZING notification.
SpawnBegin(type, a) ==
    /\ IF type \notin AgentTypes \/ a \in DOMAIN instances
       THEN /\ ret' = Returned("spawn_agent", a, FALSE, "ValueError")
            /\ calls' = <<>>
            /\ UNCHANGED <<instances, agents, metadata, capabilities_index, tag_index,
                           queues, queue_keys, spawn_pc, last_heartbeat, agent_heartbeat>>
       ELSE /\ spawn_pc[a] = "none"
            /\ LET created == bus_register(
                                  [LifeState EXCEPT !.instances = With(@, a, "INITIALIZING")], a)
                   s == notify_state_change(created, a, "INITIALIZING")
               IN IF s.raised
                  THEN /\ CommitLife(spawn_rollback(s, a))
                       /\ ret' = Returned("spawn_agent", a, FALSE, "callback")
                       /\ UNCHANGED <<spawn_pc, last_heartbeat, agent_heartbeat>>
                  ELSE /\ CommitLife(s)
                       /\ ret' = NoRet
                       /\ spawn_pc' = [spawn_pc EXCEPT ![a] = "init"]
                       /\ last_heartbeat' = [last_heartbeat EXCEPT ![a] = now]
                       /\ agent_heartbeat' = [agent_heartbeat EXCEPT ![a] = now]
    /\ UNCHANGED <<now, term_pc, detached, throws, life_running, bus_running, loop_alive,
                   faulted>>
    /\ UNCHANGED task_vars
    /\ UNCHANGED side_vars

\* spawn_agent from the return of initialize(): READY and Registry.register,
\* or, if initialize or a later step raised, the rollback and the re-raise.
SpawnFinish(a, init_ok) ==
    /\ spawn_pc[a] = "init"
    /\ LET ready == notify_state_change(set_state(LifeState, a, "READY", TRUE), a, "READY")
           reg == IF ready.raised THEN ready ELSE registry_register(ready, a, TypeOf(a), <<>>)
           failed == ~init_ok \/ reg.raised
           s == IF ~init_ok THEN spawn_rollback(LifeState, a)
                ELSE IF reg.raised THEN spawn_rollback(reg, a)
                ELSE reg
       IN /\ CommitLife(s)
          /\ ret' = Returned("spawn_agent", a, ~failed,
                           IF ~init_ok THEN "hook"
                           ELSE IF ready.raised THEN "callback"
                           ELSE IF reg.raised THEN "ValueError" ELSE None)
          /\ detached' = IF failed /\ term_pc[a] # "none" THEN detached \cup {a} ELSE detached
    /\ spawn_pc' = [spawn_pc EXCEPT ![a] = "none"]
    /\ UNCHANGED <<now, term_pc, last_heartbeat, agent_heartbeat, throws, life_running,
                   bus_running, loop_alive, faulted>>
    /\ UNCHANGED task_vars
    /\ UNCHANGED side_vars

\* terminate_agent up to its first "await": SHUTTING_DOWN, the notification
\* and, if graceful, the shutdown message.
TerminateBegin(a, graceful) ==
    /\ IF a \notin DOMAIN instances
       THEN /\ ret' = Returned("terminate_agent", a, FALSE, None)
            /\ calls' = <<>>
            /\ UNCHANGED <<instances, agents, metadata, capabilities_index, tag_index,
                           queues, queue_keys, term_pc>>
       ELSE /\ term_pc[a] = "none"
            /\ (graceful /\ a \in DOMAIN queues) => Len(queues[a].inbound) < MaxInbox
            /\ LET s == notify_state_change(set_state(LifeState, a, "SHUTTING_DOWN", TRUE),
                                            a, "SHUTTING_DOWN")
                   sent == [s EXCEPT !.queues = send(@, Message("SHUTDOWN", "lifecycle", a, 0, 0))]
               IN IF s.raised
                  THEN /\ CommitLife(s)
                       /\ ret' = Returned("terminate_agent", a, FALSE, "callback")
                       /\ UNCHANGED term_pc
                  ELSE /\ CommitLife(IF graceful THEN sent ELSE s)
                       /\ ret' = NoRet
                       /\ term_pc' = [term_pc EXCEPT ![a] = "hook"]
    /\ UNCHANGED <<now, spawn_pc, detached, last_heartbeat, agent_heartbeat, throws,
                   life_running, bus_running, loop_alive, faulted>>
    /\ UNCHANGED task_vars
    /\ UNCHANGED side_vars

\* terminate_agent from the return of "await instance.agent.shutdown()":
\* TERMINATED and its notification, or the except block if the hook raised.
TerminateHook(a, hook_ok) ==
    /\ term_pc[a] = "hook"
    /\ LET attached == a \notin detached
           s == notify_state_change(set_state(LifeState, a, "TERMINATED", attached),
                                    a, "TERMINATED")
       IN IF hook_ok /\ ~s.raised
          THEN /\ CommitLife(s)
               /\ ret' = NoRet
               /\ term_pc' = [term_pc EXCEPT ![a] = "remove"]
               /\ UNCHANGED detached
          ELSE /\ CommitLife(terminate_failed(IF hook_ok THEN s ELSE LifeState, a, attached))
               /\ ret' = Returned("terminate_agent", a, FALSE, None)
               /\ term_pc' = [term_pc EXCEPT ![a] = "none"]
               /\ detached' = detached \ {a}
    /\ UNCHANGED <<now, spawn_pc, last_heartbeat, agent_heartbeat, throws, life_running,
                   bus_running, loop_alive, faulted>>
    /\ UNCHANGED task_vars
    /\ UNCHANGED side_vars

\* terminate_agent's removal: Registry.unregister, Bus.unregister_agent and
\* "del self._instances[agent_id]"; a step that raises leads to the except block.
TerminateRemove(a) ==
    /\ term_pc[a] = "remove"
    /\ LET attached == a \notin detached
           u == registry_unregister(LifeState, a)
           b == bus_unregister(u, a)
       IN IF u.raised \/ a \notin DOMAIN b.instances
          THEN /\ CommitLife(terminate_failed(IF u.raised THEN u ELSE b, a, attached))
               /\ ret' = Returned("terminate_agent", a, FALSE, None)
          ELSE /\ CommitLife([b EXCEPT !.instances = Without(@, a)])
               /\ ret' = Returned("terminate_agent", a, TRUE, None)
    /\ term_pc' = [term_pc EXCEPT ![a] = "none"]
    /\ detached' = detached \ {a}
    /\ UNCHANGED <<now, spawn_pc, last_heartbeat, agent_heartbeat, throws, life_running,
                   bus_running, loop_alive, faulted>>
    /\ UNCHANGED task_vars
    /\ UNCHANGED side_vars

\* ------------------------------------------------------------ lifecycle, terminate calls that overlap
\* terminate_agent calls of several callers for the same id: a call looks
\* the instance up, marks it SHUTTING_DOWN and suspends at its first
\* "await"; nothing keeps a second call from doing the same meanwhile.  The
\* instance a call holds is the table's entry for as long as the id is in
\* the table (the id is not spawned again in these runs).
twice_frame == <<now, spawn_pc, term_pc, detached, last_heartbeat, agent_heartbeat, throws,
                 life_running, bus_running, loop_alive, faulted, locks, thread_pc,
                 subscribers, history, arrived, got, request, message, assigned_at,
                 last_seen, relayed, stopped>>

\* terminate_agent up to its first "await".
TerminateCallBegin(c, a, graceful) ==
    /\ term_calls[a].pc[c] = "none"
    /\ IF a \notin DOMAIN instances
       THEN /\ ret' = Returned("terminate_agent", a, FALSE, None)
            /\ calls' = <<>>
            /\ UNCHANGED <<instances, agents, metadata, capabilities_index, tag_index,
                           queues, queue_keys, term_calls>>
       ELSE /\ (graceful /\ a \in DOMAIN queues) => Len(queues[a].inbound) < MaxInbox
            /\ LET s == notify_state_change(set_state(LifeState, a, "SHUTTING_DOWN", TRUE),
                                            a, "SHUTTING_DOWN")
                   told == [s EXCEPT !.queues =
                               send(@, Message("SHUTDOWN", "lifecycle", a, 0, 0))]
               IN /\ CommitLife(IF graceful THEN told ELSE s)
                  /\ ret' = NoRet
                  /\ term_calls' = [term_calls EXCEPT ![a].pc[c] = "hook"]
    /\ UNCHANGED twice_frame
    /\ UNCHANGED task_vars

\* "await instance.agent.shutdown()" of a call: the hook runs, then
\* TERMINATED and its notification.
TerminateCallHook(c, a) ==
    /\ term_calls[a].pc[c] = "hook"
    /\ LET attached == a \in DOMAIN instances
           s == notify_state_change(set_state(LifeState, a, "TERMINATED", attached),
                                    a, "TERMINATED")
       IN CommitLife(s)
    /\ ret' = NoRet
    /\ term_calls' = [term_calls EXCEPT ![a].pc[c] = "remove", ![a].hooks = @ + 1]
    /\ UNCHANGED twice_frame
    /\ UNCHANGED task_vars

\* The removal of a call: Registry.unregister, Bus.unregister_agent and
\* "del self._instances[agent_id]"; a step that raises leads to the except
\* block and the call returns False.
TerminateCallRemove(c, a) ==
    /\ term_calls[a].pc[c] = "remove"
    /\ LET attached == a \in DOMAIN instances
           u == registry_unregister(LifeState, a)
           b == bus_unregister(u, a)
           ok == ~u.raised /\ a \in DOMAIN b.instances
       IN /\ IF ok
             THEN CommitLife([b EXCEPT !.instances = Without(@, a)])
             ELSE CommitLife(terminate_failed(IF u.raised THEN u ELSE b, a, attached))
          /\ ret' = Returned("terminate_agent", a, ok, None)
          /\ term_calls' = [term_calls EXCEPT ![a].pc[c] = "none",
                                              ![a].succeeded = IF ok THEN @ + 1 ELSE @]
    /\ UNCHANGED twice_frame
    /\ UNCHANGED task_vars

\* The instance table's keys; the order decides only the order of the notifications.
InstanceKeys == SelectSeq(<<"w1", "w2">>, LAMBDA a : a \in DOMAIN instances)

\* AgentLifecycle._check_heartbeats: every live instance is sent a heartbeat
\* and is marked ERROR if instance.last_heartbeat is older than two intervals.
RECURSIVE check_heartbeats(_, _)
check_heartbeats(s, keys) ==
    IF keys = <<>> \/ s.raised THEN s
    ELSE LET a == Head(keys)
             sent == [s EXCEPT !.queues = send(@, Message("HEARTBEAT", "lifecycle", a, 0, 0))]
         IN IF s.instances[a] \notin Alive
            THEN check_heartbeats(s, Tail(keys))
            ELSE IF now - last_heartbeat[a] > HeartbeatInterval * 2
            THEN check_heartbeats(
                     notify_state_change(set_state(sent, a, "ERROR", TRUE), a, "ERROR"),
                     Tail(keys))
            ELSE check_heartbeats(sent, Tail(keys))

\* One iteration of AgentLifecycle._monitor_loop.
MonitorHeartbeats ==
    /\ life_running
    /\ loop_alive["heartbeat"]
    /\ \A a \in DOMAIN instances \cap DOMAIN queues : Len(queues[a].inbound) < MaxInbox
    /\ CommitLife(check_heartbeats(LifeState, InstanceKeys))
    /\ ret' = NoRet
    /\ faulted' = Iterated(faulted, "heartbeat")
    /\ UNCHANGED <<now, spawn_pc, term_pc, detached, last_heartbeat, agent_heartbeat,
                   throws, life_running, bus_running, loop_alive>>
    /\ UNCHANGED task_vars
    /\ UNCHANGED side_vars

\* The clock of the Lifecycle Manager's runs.
LifeTick ==
    /\ now < MaxLifeTime
    /\ now' = now + 1
    /\ ret' = NoRet
    /\ UNCHANGED <<agents, metadata, capabilities_index, queues, queue_keys, instances>>
    /\ UNCHANGED life_vars
    /\ UNCHANGED task_vars
    /\ UNCHANGED aux_vars

\* ------------------------------------------------------------ background loops
\* "while self._running" of each loop.
Running(l) ==
    CASE l = "relay" -> bus_running
      [] l = "scheduler" -> coord_running
      [] l = "heartbeat" -> life_running

\* A loop whose "try" is around the "while": an exception leaves the loop.
ExceptOutsideLoop(alive, l) == [alive EXCEPT ![l] = FALSE]

\* "except Exception: pass" inside the "while": the iteration is abandoned
\* and the loop tests its condition again.
ExceptInsideLoop(alive, l) == alive

\* An iteration of a background loop whose body raises; the scheduler's
\* next iteration starts again with _schedule_tasks.
LoopFault(l) ==
    /\ Running(l)
    /\ loop_alive[l]
    /\ loop_alive' = ExceptInsideLoop(loop_alive, l)
    /\ faulted' = [faulted EXCEPT ![l] = "raised"]
    /\ sched_pc' = IF l = "scheduler" THEN "schedule" ELSE sched_pc
    /\ ret' = NoRet
    /\ UNCHANGED <<now, max_concurrent_tasks, coord_running, tasks, task_keys, results,
                   running_tasks, pending_tasks, ready_tasks, agents, metadata, queues,
                   instances, delivered, ever_assigned, ever_failed, reported,
                   capabilities_index, queue_keys, life_running, bus_running>>
    /\ UNCHANGED call_vars
    /\ UNCHANGED aux_vars

\* AgentCoordinator.stop, AgentCommunicationBus.stop_delivery, AgentLifecycle.stop_monitoring:
\* the flag is cleared, and the loop's thread ends at its next test of the flag.
StopComponent(l) ==
    /\ Running(l)
    /\ coord_running' = IF l = "scheduler" THEN FALSE ELSE coord_running
    /\ bus_running' = IF l = "relay" THEN FALSE ELSE bus_running
    /\ life_running' = IF l = "heartbeat" THEN FALSE ELSE life_running
    /\ ret' = NoRet
    /\ UNCHANGED <<now, max_concurrent_tasks, sched_pc, tasks, task_keys, results,
                   running_tasks, pending_tasks, ready_tasks, agents, metadata, queues,
                   instances, delivered, ever_assigned, ever_failed, reported,
                   capabilities_index, queue_keys, loop_alive, faulted>>
    /\ UNCHANGED call_vars
    /\ UNCHANGED aux_vars

\* "while self._running" found false: the loop's thread returns.
LoopExit(l) ==
    /\ ~Running(l)
    /\ loop_alive[l]
    /\ loop_alive' = [loop_alive EXCEPT ![l] = FALSE]
    /\ ret' = NoRet
    /\ UNCHANGED <<now, max_concurrent_tasks, coord_running, sched_pc, tasks, task_keys,
                   results, running_tasks, pending_tasks, ready_tasks, agents, metadata,
                   queues, instances, delivered, ever_assigned, ever_failed, reported,
                   capabilities_index, queue_keys, life_running, bus_running, faulted>>
    /\ UNCHANGED call_vars
    /\ UNCHANGED aux_vars

\* ------------------------------------------------------------ coordinator, started and stopped
\* The scheduler thread runs "while self._running: _schedule_tasks();
\* _monitor_tasks(); time.sleep(0.1)"; both passes run "with self._lock", and
\* stop holds the same lock while it clears the flag and joins the thread for
\* at most five seconds.  sched_pc is the thread's place: "test" at the
\* "while", "schedule" and "monitor" before the passes, "sleep" after them.
LockFree == locks["coordinator"].owner = None

\* What the scheduler thread and the callers of start and stop leave alone.
stop_frame == <<now, max_concurrent_tasks, task_keys, agents, capabilities_index, queue_keys,
                instances, reported, call_vars, life_running, bus_running, faulted,
                thread_pc, subscribers, history, arrived, got, request, message, tag_index,
                assigned_at, last_seen, relayed, term_calls>>

\* "while self._running": the thread goes on to the passes, or returns.
SchedulerTest ==
    /\ loop_alive["scheduler"]
    /\ sched_pc = "test"
    /\ IF coord_running
       THEN sched_pc' = "schedule" /\ UNCHANGED loop_alive
       ELSE loop_alive' = [loop_alive EXCEPT !["scheduler"] = FALSE] /\ UNCHANGED sched_pc
    /\ ret' = NoRet
    /\ UNCHANGED <<coord_running, ready_tasks, locks, stopped>>
    /\ UNCHANGED coord_vars
    /\ UNCHANGED stop_frame

\* _schedule_tasks once the thread has the lock.
SchedulerSchedule ==
    /\ loop_alive["scheduler"]
    /\ sched_pc = "schedule"
    /\ LockFree
    /\ schedule_pass
    /\ sched_pc' = "monitor"
    /\ ret' = NoRet
    /\ UNCHANGED <<coord_running, loop_alive, locks, stopped>>
    /\ UNCHANGED stop_frame

\* _monitor_tasks once the thread has the lock.
SchedulerMonitor ==
    /\ loop_alive["scheduler"]
    /\ sched_pc = "monitor"
    /\ LockFree
    /\ Commit(MonitorLoop(CoordState, running_tasks))
    /\ sched_pc' = "sleep"
    /\ ret' = NoRet
    /\ UNCHANGED <<coord_running, ready_tasks, loop_alive, locks, stopped>>
    /\ UNCHANGED stop_frame

\* time.sleep(0.1) is over.
SchedulerWake ==
    /\ loop_alive["scheduler"]
    /\ sched_pc = "sleep"
    /\ sched_pc' = "test"
    /\ ret' = NoRet
    /\ UNCHANGED <<coord_running, ready_tasks, loop_alive, locks, stopped>>
    /\ UNCHANGED coord_vars
    /\ UNCHANGED stop_frame

\* AgentCoordinator.stop up to the join: the lock is taken and the flag cleared.
StopBegin ==
    /\ LockFree
    /\ locks' = [locks EXCEPT !["coordinator"] = [owner |-> "caller", depth |-> 1]]
    /\ coord_running' = FALSE
    /\ ret' = NoRet
    /\ UNCHANGED <<sched_pc, ready_tasks, loop_alive, stopped>>
    /\ UNCHANGED coord_vars
    /\ UNCHANGED stop_frame

\* The join is over and stop returns, releasing the lock: the thread has
\* returned, or it waits for the lock at one of its passes and the join
\* has timed out.
StopReturn ==
    /\ locks["coordinator"].owner = "caller"
    /\ ~loop_alive["scheduler"] \/ sched_pc \in {"schedule", "monitor"}
    /\ locks' = [locks EXCEPT !["coordinator"] = [owner |-> None, depth |-> 0]]
    /\ stopped' = TRUE
    /\ ret' = Returned("stop", 0, ~loop_alive["scheduler"], None)
    /\ UNCHANGED <<coord_running, sched_pc, ready_tasks, loop_alive>>
    /\ UNCHANGED coord_vars
    /\ UNCHANGED stop_frame

\* AgentCoordinator.start on a stopped Coordinator whose thread has
\* returned: the flag is set and a new thread begins at the "while".
Start ==
    /\ ~coord_running
    /\ ~loop_alive["scheduler"]
    /\ coord_running' = TRUE
    /\ loop_alive' = [loop_alive EXCEPT !["scheduler"] = TRUE]
    /\ sched_pc' = "test"
    /\ stopped' = FALSE
    /\ ret' = Returned("start", 0, TRUE, None)
    /\ UNCHANGED <<ready_tasks, locks>>
    /\ UNCHANGED coord_vars
    /\ UNCHANGED stop_frame

\* ------------------------------------------------------------ locks
\* What the models of single components leave alone.
system_vars == <<now, agents, metadata, capabilities_index, tag_index, queues, queue_keys, instances,
                 ret, task_vars, life_vars, subscribers, history, arrived, got, request, message,
                 extra_vars>>

Acquire(c) == [op |-> "acquire", lock |-> c]
Release(c) == [op |-> "release", lock |-> c]

\* The "with self._lock" sections a thread enters and leaves, in program
\* order.  _schedule_tasks with one ready task: its own lock, then
\* find_by_capabilities, get_metadata, send and update_agent_state.
ScheduleScript ==
    <<Acquire("coordinator"),
      Acquire("registry"), Release("registry"),
      Acquire("registry"), Release("registry"),
      Acquire("bus"), Release("bus"),
      Acquire("registry"), Release("registry"),
      Release("coordinator")>>

\* _check_heartbeats with one live instance: its own lock, is_alive
\* (get_instance takes the same lock again), then send.
HeartbeatScript ==
    <<Acquire("lifecycle"),
      Acquire("lifecycle"), Release("lifecycle"),
      Acquire("bus"), Release("bus"),
      Release("lifecycle")>>

\* spawn_agent: its own lock around register_agent, then, after the
\* initialize hook, Registry.register outside the lock.
SpawnScript ==
    <<Acquire("lifecycle"),
      Acquire("bus"), Release("bus"),
      Release("lifecycle"),
      Acquire("registry"), Release("registry")>>

Script(th) ==
    CASE th = "scheduler" -> ScheduleScript
      [] th = "monitor" -> HeartbeatScript
      [] th = "caller" -> SpawnScript

\* The component whose method a thread runs.
HomeOf(th) == IF th = "scheduler" THEN "coordinator" ELSE "lifecycle"

\* threading.RLock: acquire succeeds if the lock is free or owned by the
\* calling thread; release by the owner frees it at depth 0.
LockStep(th) ==
    /\ LET e == Script(th)[thread_pc[th]]
           l == locks[e.lock]
       IN IF e.op = "acquire"
          THEN /\ l.owner \in {None, th}
               /\ locks' = [locks EXCEPT ![e.lock] = [owner |-> th, depth |-> l.depth + 1]]
          ELSE /\ l.owner = th
               /\ locks' = [locks EXCEPT ![e.lock] =
                               [owner |-> IF l.depth = 1 THEN None ELSE th,
                                depth |-> l.depth - 1]]
    /\ thread_pc' = [thread_pc EXCEPT ![th] = IF @ = Len(Script(th)) THEN 1 ELSE @ + 1]
    /\ UNCHANGED system_vars

\* ------------------------------------------------------------ registry, called directly
\* The tag lists workers are registered with, and the lists looked up; "c"
\* and "z" are names no worker has.
RegistryTags == {<<>>, <<"x">>, <<"x", "y">>}
CapQueries == {<<>>, <<"a">>, <<"b">>, <<"a", "b">>, <<"b", "a">>, <<"c">>}
TagQueries == {<<>>, <<"x">>, <<"y">>, <<"x", "y">>, <<"z">>}

\* What the Registry's own calls leave alone.
registry_frame == <<now, instances, queues, queue_keys, spawn_pc, term_pc, detached,
                    last_heartbeat, agent_heartbeat, throws, life_running, bus_running,
                    loop_alive, faulted>>

\* AgentRegistry.register(agent, agent_type, tags), called by a client.
RegistryRegister(a, type, tgs) ==
    /\ LET s == registry_register(LifeState, a, type, tgs)
       IN /\ CommitLife(s)
          /\ ret' = Returned("register", a, ~s.raised,
                            IF s.raised THEN "ValueError" ELSE None)
    /\ UNCHANGED <<now, spawn_pc, term_pc, detached, last_heartbeat, agent_heartbeat, throws,
                   life_running, bus_running, loop_alive, faulted>>
    /\ UNCHANGED task_vars
    /\ UNCHANGED side_vars

\* AgentRegistry.unregister(agent_id), called by a client.
RegistryUnregister(a) ==
    /\ LET s == registry_unregister(LifeState, a)
       IN /\ CommitLife(s)
          /\ ret' = Returned("unregister", a, ~s.raised,
                            IF s.raised THEN "ValueError" ELSE None)
    /\ UNCHANGED <<now, spawn_pc, term_pc, detached, last_heartbeat, agent_heartbeat, throws,
                   life_running, bus_running, loop_alive, faulted>>
    /\ UNCHANGED task_vars
    /\ UNCHANGED side_vars

\* A client's call of find_by_capabilities; the list returned is kept as a set.
FindByCapabilities(caps) ==
    /\ ret' = Returned("find_by_capabilities", caps,
                       find_by_capabilities(agents, capabilities_index, caps), None)
    /\ UNCHANGED <<agents, metadata, capabilities_index, calls>>
    /\ UNCHANGED registry_frame
    /\ UNCHANGED task_vars
    /\ UNCHANGED aux_vars

\* A client's call of find_by_tags.
FindByTags(tgs) ==
    /\ ret' = Returned("find_by_tags", tgs, find_by_tags(agents, tag_index, tgs), None)
    /\ UNCHANGED <<agents, metadata, capabilities_index, calls>>
    /\ UNCHANGED registry_frame
    /\ UNCHANGED task_vars
    /\ UNCHANGED aux_vars

\* ------------------------------------------------------------ registry, cleaned up
\* The timeouts cleanup_stale_agents is called with.
StaleTimeouts == {0, 1}

\* What the Registry's calls leave alone when the time a worker was last
\* seen is followed.
seen_frame == <<locks, thread_pc, subscribers, history, arrived, got, request, message,
                assigned_at, relayed, stopped, term_calls>>

\* AgentRegistry.register: the new AgentMetadata takes time.time() as last_seen.
RegisterSeen(a, type, tgs) ==
    /\ LET s == registry_register(LifeState, a, type, tgs)
       IN /\ CommitLife(s)
          /\ last_seen' = IF s.raised THEN last_seen ELSE [last_seen EXCEPT ![a] = now]
          /\ ret' = Returned("register", a, ~s.raised,
                            IF s.raised THEN "ValueError" ELSE None)
    /\ UNCHANGED <<now, spawn_pc, term_pc, detached, last_heartbeat, agent_heartbeat, throws,
                   life_running, bus_running, loop_alive, faulted>>
    /\ UNCHANGED task_vars
    /\ UNCHANGED seen_frame

\* AgentRegistry.update_agent_state, called by a client: the state and
\* last_seen of a registered id are written, any other id is ignored.
UpdateAgentState(a, st) ==
    /\ metadata' = update_agent_state(metadata, a, st)
    /\ last_seen' = IF a \in DOMAIN metadata THEN [last_seen EXCEPT ![a] = now] ELSE last_seen
    /\ ret' = NoRet
    /\ UNCHANGED <<agents, capabilities_index, tag_index, calls>>
    /\ UNCHANGED registry_frame
    /\ UNCHANGED task_vars
    /\ UNCHANGED seen_frame

\* The for-loop of cleanup_stale_agents over self._metadata.items(): n is the
\* size the dict had when the iteration began.  unregister deletes from the
\* dict that is being iterated, and the iterator raises RuntimeError
\* ("dictionary changed size during iteration") when it is next advanced,
\* also when no key is left; the loop catches only ValueError.
RECURSIVE cleanup_loop(_, _, _, _, _)
cleanup_loop(s, keys, stale, n, timeout) ==
    IF Len(s.agents) # n THEN [state |-> s, val |-> <<>>, raised |-> "RuntimeError"]
    ELSE IF keys = <<>> THEN [state |-> s, val |-> stale, raised |-> None]
    ELSE LET a == Head(keys)
             u == registry_unregister(s, a)
         IN IF now - last_seen[a] > timeout
            THEN IF u.raised THEN cleanup_loop(s, Tail(keys), stale, n, timeout)
                 ELSE cleanup_loop(u, Tail(keys), Append(stale, a), n, timeout)
            ELSE cleanup_loop(s, Tail(keys), stale, n, timeout)

\* AgentRegistry.cleanup_stale_agents(timeout)
CleanupStale(timeout) ==
    /\ LET r == cleanup_loop(LifeState, agents, <<>>, Len(agents), timeout)
       IN /\ CommitLife(r.state)
          /\ ret' = Returned("cleanup_stale_agents", timeout, r.val, r.raised)
    /\ UNCHANGED last_seen
    /\ UNCHANGED <<now, spawn_pc, term_pc, detached, last_heartbeat, agent_heartbeat, throws,
                   life_running, bus_running, loop_alive, faulted>>
    /\ UNCHANGED task_vars
    /\ UNCHANGED seen_frame

\* ------------------------------------------------------------ bus, called directly
\* The capacity the Bus is constructed with, the number of messages the
\* model lets the mailboxes take in, and the length of the history buffer.
MaxQueueSize == 2
MaxArrivals == 3
MaxHistory == 1

\* The number of messages the workers place in their outbound mailboxes in
\* the runs of the relay.
MaxPlaced == 3
MaxQueued == 1

Topics == {"t"}
MsgIds == {"m1", "m2"}

\* An AgentMessage as the Bus sees it; the Bus reads no other field.
BusMessage(id, sender, recipient, corr) ==
    [msg_id |-> id, sender_id |-> sender, recipient_id |-> recipient,
     correlation_id |-> corr, topic |-> ""]

\* The messages clients pass to send: to the first worker, or built without
\* a recipient.
Outgoing == {BusMessage(id, sender, recipient, "") :
                 id \in MsgIds, sender \in Agents, recipient \in {"w1", ""}}

\* The messages clients pass to broadcast, publish and send_message.
Announcements == {BusMessage("m1", sender, "", "") : sender \in Agents}

\* What the Bus's own calls leave alone.
bus_frame == <<now, agents, metadata, capabilities_index, tag_index, instances, locks,
               thread_pc, message, extra_vars>>

\* The Registry, the Bus, the Lifecycle Manager and the Coordinator.
system_frame == <<now, agents, metadata, capabilities_index, tag_index, queues, queue_keys,
                  instances, task_vars, life_vars>>

\* The messages the mailboxes have taken in or hold for delivery.
Load ==
    Len(arrived["w1"]) + Len(arrived["w2"])
    + (IF "w1" \in DOMAIN queues THEN Len(queues["w1"].outbound) ELSE 0)
    + (IF "w2" \in DOMAIN queues THEN Len(queues["w2"].outbound) ELSE 0)

\* AgentCommunicationBus._add_to_history
add_to_history(h, msg) ==
    IF Len(h) + 1 > MaxHistory THEN Tail(Append(h, msg)) ELSE Append(h, msg)

\* A get_inbound that takes the message put last.
get_inbound_last(q) == [msg |-> q[Len(q)], rest |-> SubSeq(q, 1, Len(q) - 1)]

\* MessageQueue.get_inbound on a mailbox that holds a message: Queue.get
\* takes the message put first.
get_inbound(q) == [msg |-> Head(q), rest |-> Tail(q)]

\* An unregister_agent that leaves the topic subscriptions as they are.
keep_subscriptions(subs, a) == subs

\* unregister_agent's "for topic in self._subscribers: ... discard(agent_id)"
discard_subscriptions(subs, a) == [t \in DOMAIN subs |-> subs[t] \ {a}]

\* AgentCommunicationBus.register_agent, called by a client.
BusRegister(a) ==
    /\ LET s == bus_register(LifeState, a)
       IN /\ queues' = s.queues
          /\ queue_keys' = s.queue_keys
          /\ ret' = Returned("register_agent", a, s.queues[a], None)
    /\ UNCHANGED <<subscribers, history, arrived, got, request>>
    /\ UNCHANGED <<bus_frame, task_vars, life_vars>>

\* AgentCommunicationBus.unregister_agent, called by a client: the mailboxes
\* are cleared and dropped, the id leaves every topic.
BusUnregister(a) ==
    /\ LET s == bus_unregister(LifeState, a)
       IN /\ queues' = s.queues
          /\ queue_keys' = s.queue_keys
    /\ subscribers' = discard_subscriptions(subscribers, a)
    /\ arrived' = [arrived EXCEPT ![a] = <<>>]
    /\ got' = [got EXCEPT ![a] = <<>>]
    /\ ret' = Returned("unregister_agent", a, TRUE, None)
    /\ UNCHANGED <<history, request>>
    /\ UNCHANGED <<bus_frame, task_vars, life_vars>>

\* AgentCommunicationBus.subscribe: the topic's set is created on first use;
\* the id is not looked up in the mailboxes.
Subscribe(a, topic) ==
    /\ subscribers' = With(subscribers, topic,
                           (IF topic \in DOMAIN subscribers THEN subscribers[topic] ELSE {})
                           \cup {a})
    /\ ret' = NoRet
    /\ UNCHANGED <<queues, queue_keys, history, arrived, got, request>>
    /\ UNCHANGED <<bus_frame, task_vars, life_vars>>

\* AgentCommunicationBus.send, called by a client.
BusSend(msg) ==
    /\ Load < MaxArrivals
    /\ LET r == msg.recipient_id
           ok == send_ok(queues, msg)
       IN /\ queues' = send(queues, msg)
          /\ history' = IF ok THEN add_to_history(history, msg) ELSE history
          /\ arrived' = IF ok THEN [arrived EXCEPT ![r] = Append(@, msg)] ELSE arrived
          /\ ret' = Returned("send", msg, ok, None)
    /\ UNCHANGED <<queue_keys, subscribers, got, request>>
    /\ UNCHANGED <<bus_frame, task_vars, life_vars>>

\* The copies broadcast and publish put into the mailboxes of the ids of a
\* list: "AgentMessage(**message.to_dict())" with the recipient rewritten.
RECURSIVE Deliver(_, _, _, _)
Deliver(qs, log, keys, msg) ==
    IF keys = <<>> THEN [queues |-> qs, arrived |-> log]
    ELSE LET a == Head(keys)
             copy == [msg EXCEPT !.recipient_id = a]
         IN Deliver([qs EXCEPT ![a].inbound = Append(@, copy)],
                    [log EXCEPT ![a] = Append(@, copy)], Tail(keys), msg)

\* AgentCommunicationBus.broadcast with exclude_sender left at True.
Broadcast(msg) ==
    /\ LET targets == SelectSeq(queue_keys, LAMBDA a : a # msg.sender_id)
           d == Deliver(queues, arrived, targets, msg)
       IN /\ Load + Len(targets) <= MaxArrivals
          /\ queues' = d.queues
          /\ arrived' = d.arrived
          /\ ret' = Returned("broadcast", msg, Len(targets), None)
    /\ history' = add_to_history(history, msg)
    /\ UNCHANGED <<queue_keys, subscribers, got, request>>
    /\ UNCHANGED <<bus_frame, task_vars, life_vars>>

\* AgentCommunicationBus.publish: a copy for every subscriber of the topic
\* that has mailboxes, with the topic written into the payload.
Publish(topic, msg) ==
    /\ LET subs == IF topic \in DOMAIN subscribers THEN subscribers[topic] ELSE {}
           targets == SelectSeq(queue_keys, LAMBDA a : a \in subs)
           d == Deliver(queues, arrived, targets, [msg EXCEPT !.topic = topic])
       IN /\ Load + Len(targets) <= MaxArrivals
          /\ queues' = d.queues
          /\ arrived' = d.arrived
          /\ ret' = Returned("publish", msg, Len(targets), None)
    /\ UNCHANGED <<queue_keys, subscribers, history, got, request>>
    /\ UNCHANGED <<bus_frame, task_vars, life_vars>>

\* AgentCommunicationBus.get_message: the next message of the id's inbound
\* mailbox, None if the id has no mailboxes or the mailbox stays empty.
GetMessage(a) ==
    /\ IF a \in DOMAIN queues /\ queues[a].inbound # <<>>
       THEN LET g == get_inbound(queues[a].inbound)
            IN /\ queues' = [queues EXCEPT ![a].inbound = g.rest]
               /\ got' = [got EXCEPT ![a] = Append(@, g.msg)]
               /\ ret' = Returned("get_message", a, g.msg, None)
       ELSE /\ ret' = Returned("get_message", a, NoMessage, None)
            /\ UNCHANGED <<queues, got>>
    /\ UNCHANGED <<queue_keys, subscribers, history, arrived, request>>
    /\ UNCHANGED <<bus_frame, task_vars, life_vars>>

\* AgentCommunicationBus.send_message: the message goes into the sender's
\* outbound mailbox.
SendMessage(msg) ==
    /\ Load < MaxArrivals
    /\ LET a == msg.sender_id
           ok == a # "" /\ a \in DOMAIN queues
       IN /\ queues' = IF ok THEN [queues EXCEPT ![a].outbound = Append(@, msg)] ELSE queues
          /\ ret' = Returned("send_message", msg, ok, None)
    /\ UNCHANGED <<queue_keys, subscribers, history, arrived, got, request>>
    /\ UNCHANGED <<bus_frame, task_vars, life_vars>>

\* ------------------------------------------------------------ lifecycle, a spawn from call to return
\* The agent types a caller may name: the registered ones and one that is not.
SpawnTypes == AgentTypes \cup {"unknown"}

\* spawn_agent from the call to the return or the raise, on the state s:
\* the state it leaves, whether it returned the instance, the exception it
\* raised and whether its except block ran.
spawn_agent(s, type, a, init_ok) ==
    IF type \notin AgentTypes \/ a \in DOMAIN s.instances
    THEN [state |-> s, ok |-> FALSE, error |-> "ValueError", cleaned |-> FALSE]
    ELSE LET created == bus_register([s EXCEPT !.instances = With(@, a, "INITIALIZING")], a)
             began == notify_state_change(created, a, "INITIALIZING")
             ready == notify_state_change(set_state(began, a, "READY", TRUE), a, "READY")
             reg == IF ready.raised THEN ready ELSE registry_register(ready, a, type, <<>>)
         IN IF began.raised
            THEN [state |-> spawn_rollback(began, a), ok |-> FALSE, error |-> "callback",
                  cleaned |-> TRUE]
            ELSE IF ~init_ok
            THEN [state |-> spawn_rollback(began, a), ok |-> FALSE, error |-> "hook",
                  cleaned |-> TRUE]
            ELSE IF reg.raised
            THEN [state |-> spawn_rollback(reg, a), ok |-> FALSE,
                  error |-> IF ready.raised THEN "callback" ELSE "ValueError",
                  cleaned |-> TRUE]
            ELSE [state |-> reg, ok |-> TRUE, error |-> None, cleaned |-> FALSE]

\* AgentLifecycle.spawn_agent, called while clients use the Registry and the
\* Bus: the unregister_agent of the except block also takes the id out of
\* every topic.
SpawnAgentCall(type, a, init_ok) ==
    /\ spawn_pc[a] = "none"
    /\ LET r == spawn_agent(LifeState, type, a, init_ok)
       IN /\ CommitLife(r.state)
          /\ ret' = Returned("spawn_agent", a, r.ok, r.error)
          /\ subscribers' = IF r.cleaned THEN discard_subscriptions(subscribers, a)
                            ELSE subscribers
          /\ arrived' = IF r.cleaned THEN [arrived EXCEPT ![a] = <<>>] ELSE arrived
          /\ got' = IF r.cleaned THEN [got EXCEPT ![a] = <<>>] ELSE got
          /\ last_heartbeat' = IF r.ok THEN [last_heartbeat EXCEPT ![a] = now]
                               ELSE last_heartbeat
          /\ agent_heartbeat' = IF r.ok THEN [agent_heartbeat EXCEPT ![a] = now]
                                ELSE agent_heartbeat
    /\ UNCHANGED <<now, spawn_pc, term_pc, detached, throws, life_running, bus_running,
                   loop_alive, faulted, locks, thread_pc, history, request, message,
                   extra_vars>>
    /\ UNCHANGED task_vars

\* ------------------------------------------------------------ bus, request and reply
\* The timeouts request is called with, and the messages passed to it: from
\* the first worker to the second, with or without a correlation id.
RequestTimeouts == {1, 2}
Requests == {BusMessage("m1", "w1", "w2", corr) : corr \in {"", "c0"}}

\* request's "message.correlation_id = str(uuid.uuid4())" for a message without one.
WithCorrelation(msg) ==
    IF msg.correlation_id = "" THEN [msg EXCEPT !.correlation_id = "uuid"] ELSE msg

\* AgentCommunicationBus.request up to its polling loop: the correlation id,
\* the send, and the local reply queue.  The callback that would fill the reply
\* queue is defined and handed to nobody.  reply records the correlated
\* reply put into the sender's mailbox before the timeout.
RequestBegin(msg, timeout) ==
    /\ request.pc \in {"none", "returned"}
    /\ Load < MaxArrivals
    /\ LET m == WithCorrelation(msg)
           ok == send_ok(queues, m)
       IN /\ queues' = send(queues, m)
          /\ history' = IF ok THEN add_to_history(history, m) ELSE history
          /\ arrived' = IF ok THEN [arrived EXCEPT ![m.recipient_id] = Append(@, m)]
                        ELSE arrived
          /\ request' = IF ok
                        THEN [pc |-> "waiting", msg |-> m, start |-> now,
                              timeout |-> timeout, reply_queue |-> <<>>, reply |-> NoMessage]
                        ELSE NoRequest
          /\ ret' = IF ok THEN NoRet ELSE Returned("request", m, NoMessage, None)
    /\ UNCHANGED <<queue_keys, subscribers, got>>
    /\ UNCHANGED <<bus_frame, task_vars, life_vars>>

\* A worker takes the next message of its mailbox with get_message and
\* sends the reply of its handler: to the sender, with the correlation id of
\* the message.
Reply(a) ==
    /\ a \in DOMAIN queues
    /\ queues[a].inbound # <<>>
    /\ Load < MaxArrivals
    /\ LET g == get_inbound(queues[a].inbound)
           reply == BusMessage("r1", a, g.msg.sender_id, g.msg.correlation_id)
           taken == [queues EXCEPT ![a].inbound = g.rest]
           ok == send_ok(taken, reply)
           answers == /\ ok
                      /\ request.pc = "waiting"
                      /\ request.reply = NoMessage
                      /\ reply.recipient_id = request.msg.sender_id
                      /\ reply.correlation_id = request.msg.correlation_id
                      /\ now - request.start < request.timeout
       IN /\ queues' = send(taken, reply)
          /\ got' = [got EXCEPT ![a] = Append(@, g.msg)]
          /\ history' = IF ok THEN add_to_history(history, reply) ELSE history
          /\ arrived' = IF ok THEN [arrived EXCEPT ![reply.recipient_id] = Append(@, reply)]
                        ELSE arrived
          /\ request' = IF answers THEN [request EXCEPT !.reply = reply] ELSE request
          /\ ret' = Returned("send", reply, ok, None)
    /\ UNCHANGED <<queue_keys, subscribers>>
    /\ UNCHANGED <<bus_frame, task_vars, life_vars>>

\* The end of request's polling loop: the head of the reply queue as soon as
\* it holds a message, None once the timeout has passed.
RequestReturn ==
    /\ request.pc = "waiting"
    /\ IF request.reply_queue # <<>>
       THEN ret' = Returned("request", request.msg, Head(request.reply_queue), None)
       ELSE /\ now - request.start >= request.timeout
            /\ ret' = Returned("request", request.msg, NoMessage, None)
    /\ request' = [request EXCEPT !.pc = "returned"]
    /\ UNCHANGED <<queues, queue_keys, subscribers, history, arrived, got>>
    /\ UNCHANGED <<bus_frame, task_vars, life_vars>>

\* ------------------------------------------------------------ messages on the wire
\* The values of MessageType the model draws from, and the field values of
\* the messages clients build.
MessageTypeValues == {"task_assign", "heartbeat", "data_push"}
Timestamps == {0, 1}
Payloads == {{}, {<<"task", "test">>}}
CorrelationIds == {"", "c0"}
ReplyTos == {"", "w1"}

\* A member of the enum MessageType, and a plain string in its place.
Member(v) == [kind |-> "enum", value |-> v]
Plain(v) == [kind |-> "str", value |-> v]

\* A dataclass AgentMessage; the constructor stores its arguments as they are.
AgentMessage(id, type, sender, recipient, ts, payload, corr, reply) ==
    [msg_id |-> id, msg_type |-> type, sender_id |-> sender, recipient_id |-> recipient,
     timestamp |-> ts, payload |-> payload, correlation_id |-> corr, reply_to |-> reply]

\* The messages clients build: msg_type is a member of MessageType.
Messages ==
    {AgentMessage(id, Member(v), sender, recipient, ts, payload, corr, reply) :
        id \in MsgIds, v \in MessageTypeValues, sender \in Agents,
        recipient \in Agents \cup {""}, ts \in Timestamps, payload \in Payloads,
        corr \in CorrelationIds, reply \in ReplyTos}

\* The outcome of a call: the value returned, or the exception raised.
Value(v) == [raised |-> None, val |-> v]
Raises(e) == [raised |-> e, val |-> NoMessage]

\* AgentMessage.to_dict: the fields under their names, "self.msg_type.value"
\* for the kind; a str has no attribute "value".
to_dict(m) ==
    IF m.msg_type.kind # "enum" THEN Raises("AttributeError")
    ELSE Value([msg_id |-> m.msg_id, msg_type |-> m.msg_type.value,
                sender_id |-> m.sender_id, recipient_id |-> m.recipient_id,
                timestamp |-> m.timestamp, payload |-> m.payload,
                correlation_id |-> m.correlation_id, reply_to |-> m.reply_to])

\* dict.get(key, default)
Get(d, key, default) == IF key \in DOMAIN d THEN d[key] ELSE default

\* AgentMessage.from_dict: every field with data.get, the kind looked up in
\* MessageType by value; the defaults for msg_id and timestamp are a new
\* uuid and the current time.
from_dict(d) ==
    LET v == Get(d, "msg_type", "data_push")
    IN IF v \notin MessageTypeValues THEN Raises("ValueError")
       ELSE Value(AgentMessage(Get(d, "msg_id", "uuid"), Member(v), Get(d, "sender_id", ""),
                               Get(d, "recipient_id", ""), Get(d, "timestamp", now),
                               Get(d, "payload", {}), Get(d, "correlation_id", ""),
                               Get(d, "reply_to", "")))

\* "AgentMessage(**message.to_dict())" with "msg.recipient_id = agent_id", as
\* broadcast and publish build the copy they deliver: the constructor gets
\* the kind as the string to_dict wrote.
DeliveredCopy(m, a) ==
    LET d == to_dict(m)
    IN IF d.raised # None THEN d
       ELSE Value(AgentMessage(d.val.msg_id, Plain(d.val.msg_type), d.val.sender_id, a,
                               d.val.timestamp, d.val.payload, d.val.correlation_id,
                               d.val.reply_to))

\* from_dict(to_dict(m))
RoundTrip ==
    /\ LET d == to_dict(message)
           back == IF d.raised # None THEN d ELSE from_dict(d.val)
       IN ret' = Returned("round_trip", message, back.val, back.raised)
    /\ UNCHANGED message
    /\ UNCHANGED <<system_frame, locks, thread_pc, subscribers, history, arrived, got, request,
                   extra_vars>>

\* A worker is handed the copy of the message that broadcast delivers to it.
ReceiveBroadcast(a) ==
    /\ to_dict(message).raised = None
    /\ a # message.sender_id
    /\ message' = DeliveredCopy(message, a).val
    /\ ret' = NoRet
    /\ UNCHANGED <<system_frame, locks, thread_pc, subscribers, history, arrived, got, request,
                   extra_vars>>

\* ------------------------------------------------------------ bus, messages cast to many
\* The messages clients pass to broadcast and publish: built by a worker, or
\* the copy the second worker got from a broadcast and passes on.
Built(sender) ==
    AgentMessage("m1", Member("data_push"), sender, "", 0, {<<"task", "test">>}, "", "")
Casts == {Built(sender) : sender \in Agents} \cup {DeliveredCopy(Built("w1"), "w2").val}

\* msg.payload["topic"] = topic
Stamped(m, topic) ==
    [m EXCEPT !.payload = {p \in @ : p[1] # "topic"} \cup {<<"topic", topic>>}]

\* The loop of broadcast (topic None) and of publish over the ids it delivers
\* to: each gets "AgentMessage(**message.to_dict())" with the recipient
\* rewritten and, in publish, the topic written into the payload.
RECURSIVE Cast(_, _, _, _, _)
Cast(qs, log, keys, msg, topic) ==
    IF keys = <<>> THEN [queues |-> qs, arrived |-> log]
    ELSE LET a == Head(keys)
             c == DeliveredCopy(msg, a).val
             copy == IF topic = None THEN c ELSE Stamped(c, topic)
         IN Cast([qs EXCEPT ![a].inbound = Append(@, copy)],
                 [log EXCEPT ![a] = Append(@, copy)], Tail(keys), msg, topic)

\* AgentCommunicationBus.broadcast(message, exclude_sender): to_dict raises
\* in the first round of the loop for a message whose kind is a str; the
\* original goes into the history.
BroadcastMessage(msg, exclude_sender) ==
    /\ LET targets == SelectSeq(queue_keys,
                                LAMBDA a : ~(exclude_sender /\ a = msg.sender_id))
           call == [message |-> msg, exclude_sender |-> exclude_sender]
           d == Cast(queues, arrived, targets, msg, None)
       IN /\ Load + Len(targets) <= MaxArrivals
          /\ IF targets # <<>> /\ to_dict(msg).raised # None
             THEN /\ ret' = Returned("broadcast", call, 0, to_dict(msg).raised)
                  /\ UNCHANGED <<queues, arrived, history>>
             ELSE /\ queues' = d.queues
                  /\ arrived' = d.arrived
                  /\ history' = add_to_history(history, msg)
                  /\ ret' = Returned("broadcast", call, Len(targets), None)
    /\ UNCHANGED <<queue_keys, subscribers, got, request>>
    /\ UNCHANGED <<bus_frame, task_vars, life_vars>>

\* AgentCommunicationBus.publish(topic, message): the copies share the
\* payload dict of the original, so the caller's message carries the topic
\* afterwards; nothing goes into the history.
PublishMessage(topic, msg) ==
    /\ LET subs == IF topic \in DOMAIN subscribers THEN subscribers[topic] ELSE {}
           targets == SelectSeq(queue_keys, LAMBDA a : a \in subs)
           call == [message |-> msg, topic |-> topic]
           d == Cast(queues, arrived, targets, msg, topic)
       IN /\ Load + Len(targets) <= MaxArrivals
          /\ IF targets # <<>> /\ to_dict(msg).raised # None
             THEN /\ ret' = Returned("publish", call, 0, to_dict(msg).raised)
                  /\ UNCHANGED <<queues, arrived>>
             ELSE /\ queues' = d.queues
                  /\ arrived' = d.arrived
                  /\ ret' = Returned("publish", call, Len(targets), None)
    /\ UNCHANGED <<queue_keys, subscribers, history, got, request>>
    /\ UNCHANGED <<bus_frame, task_vars, life_vars>>

\* ------------------------------------------------------------ properties
Status(t) == tasks[t].status
IsRunning(t) == t \in DictKeys(running_tasks)
Submitted == DOMAIN tasks
SubmitPos(t) == CHOOSE i \in 1..Len(task_keys) : task_keys[i] = t
SchedulePass == sched_pc = "schedule" /\ sched_pc' = "monitor"

\* C1: once a task has a terminal status, its status never changes again and its
\* recorded result is never replaced.
C1_TerminalIsFinal ==
    [][\A t \in Submitted :
          Status(t) \in Terminal =>
              /\ tasks'[t].status = Status(t)
              /\ t \in DOMAIN results => results'[t] = results[t]]_vars

\* C2: a task that was assigned and has ended has had 1 + retry_count assignment
\* messages delivered, and no task is in the running set twice.
C2_AssignmentCount ==
    \A t \in Submitted :
        /\ (Status(t) \in Terminal /\ ever_assigned[t] # {}) =>
               delivered[t] = 1 + tasks[t].retry_count
        /\ Cardinality({i \in 1..Len(running_tasks) : running_tasks[i][1] = t}) <= 1

\* C3: a registered worker is busy in the Registry iff a task in the running set is
\* assigned to it.
C3_BusyIffAssigned ==
    \A a \in DOMAIN metadata :
        metadata[a].state = "busy" <=> \E i \in 1..Len(running_tasks) : running_tasks[i][2] = a

\* C4: a task whose status is ASSIGNED or RUNNING has an assigned worker and is in the
\* running set, mapped to that worker.
C4_AssignedIsRunning ==
    \A t \in Submitted :
        Status(t) \in {"ASSIGNED", "RUNNING"} =>
            /\ tasks[t].assigned_to # None
            /\ IsRunning(t)
            /\ DictGet(running_tasks, t) = tasks[t].assigned_to

C4_Witness ==
    \E t \in Submitted :
        /\ Status(t) = "ASSIGNED"
        /\ tasks[t].retry_count > 0
        /\ tasks[t].assigned_to \notin DOMAIN metadata

\* C5: a step that assigns a task finds, for every id in its depends_on list, a recorded
\* COMPLETED result of a submitted task, and a task with a dependency that has ended
\* FAILED or CANCELLED is never assigned.
C5_DependencyOrder ==
    [][\A t \in Submitted :
          (~IsRunning(t) /\ t \in DictKeys(running_tasks')) =>
              \A i \in 1..Len(tasks[t].depends_on) :
                  LET d == tasks[t].depends_on[i]
                  IN /\ d \in DOMAIN results
                     /\ results[d].status = "COMPLETED"
                     /\ d \in Submitted
                     /\ d \notin ever_failed]_vars

\* The part of C5 about the moment of assignment: every dependency of a task being
\* assigned has a recorded COMPLETED result and status COMPLETED at that moment.
C5_CompletedAtAssignment ==
    [][\A t \in Submitted :
          (~IsRunning(t) /\ t \in DictKeys(running_tasks')) =>
              \A i \in 1..Len(tasks[t].depends_on) :
                  LET d == tasks[t].depends_on[i]
                  IN /\ d \in DOMAIN results
                     /\ results[d].status = "COMPLETED"
                     /\ d \in Submitted
                     /\ Status(d) = "COMPLETED"]_vars

\* Whether the list is in descending priority with ties in the order of `order`.
OrderedBy(list, order) ==
    \A i, j \in 1..Len(list) :
        i < j =>
            \/ tasks[list[i]].priority > tasks[list[j]].priority
            \/ /\ tasks[list[i]].priority = tasks[list[j]].priority
               /\ \E x, y \in 1..Len(order) : x < y /\ order[x] = list[i] /\ order[y] = list[j]

C7_ConcurrencyLimit ==
    [][/\ Len(running_tasks) <= max_concurrent_tasks
       /\ Len(running_tasks') <= max_concurrent_tasks
       /\ (SchedulePass /\ Len(running_tasks) >= max_concurrent_tasks) =>
              (running_tasks' = running_tasks /\ tasks' = tasks /\ queues' = queues)]_vars

C7_Witness ==
    /\ sched_pc = "monitor"
    /\ Len(running_tasks) = max_concurrent_tasks
    /\ \E t \in Range(pending_tasks) :
           /\ Status(t) = "PENDING"
           /\ select_agent_for_task(CoordState, tasks[t]) # {}

\* C8: a task no worker result was recorded for moves PENDING -> ASSIGNED -> RUNNING ->
\* RETRYING (back to PENDING) at most max_retries times and then from RUNNING to FAILED
\* with error "Task timed out" and retry_count = max_retries.
C8_RetryPath ==
    [][\A t \in Submitted :
          (t \notin DOMAIN results /\ tasks'[t].status # Status(t)) =>
              \/ Status(t) = "PENDING" /\ tasks'[t].status \in {"ASSIGNED", "CANCELLED"}
              \/ Status(t) = "ASSIGNED" /\ tasks'[t].status = "RUNNING"
              \/ /\ Status(t) = "RUNNING"
                 /\ tasks'[t].status = "RETRYING"
                 /\ tasks'[t].retry_count = tasks[t].retry_count + 1
                 /\ tasks'[t].retry_count <= tasks[t].max_retries
              \/ Status(t) = "RETRYING" /\ tasks'[t].status = "PENDING"
              \/ /\ Status(t) = "RUNNING"
                 /\ tasks'[t].status = "FAILED"
                 /\ tasks[t].retry_count = tasks[t].max_retries
                 /\ results'[t].error = TIMED_OUT
              \/ results'[t].error # TIMED_OUT]_vars

\* The part of C8 about counting: a task is retried at most max_retries times, and one
\* failed by the monitoring pass has retry_count = max_retries and error "Task timed out".
C8_RetryCount ==
    [][\A t \in Submitted :
          /\ tasks'[t].retry_count <= tasks[t].max_retries
          /\ (t \in DOMAIN results' /\ results'[t].error = TIMED_OUT /\
              (t \notin DOMAIN results \/ results[t] # results'[t])) =>
                 /\ tasks'[t].status = "FAILED"
                 /\ tasks[t].retry_count = tasks[t].max_retries]_vars

\* C9: cancel_task returns TRUE exactly for a task that is PENDING; the task then is
\* CANCELLED and out of the pending queue; a call returning FALSE changes nothing; a
\* CANCELLED task that was never assigned is in neither the pending queue nor the
\* running set.
C9_CancelOnlyPending ==
    [][/\ ret'.op = "cancel_task" =>
              /\ ret'.val <=> (ret'.arg \in Submitted /\ Status(ret'.arg) = "PENDING")
              /\ ret'.val =>
                     /\ tasks'[ret'.arg].status = "CANCELLED"
                     /\ ret'.arg \notin Range(pending_tasks')
                     /\ ret'.arg \notin DictKeys(running_tasks')
              /\ ~ret'.val => (tasks' = tasks /\ pending_tasks' = pending_tasks)
              /\ UNCHANGED <<results, running_tasks, metadata, queues>>
       /\ \A t \in Submitted :
              (Status(t) = "CANCELLED" /\ ever_assigned[t] = {}) =>
                  /\ tasks'[t].status = "CANCELLED"
                  /\ ever_assigned'[t] = {}
                  /\ t \notin Range(pending_tasks')
                  /\ t \notin DictKeys(running_tasks')]_vars

C9_Witness ==
    /\ ret.op = "cancel_task"
    /\ ret.val
    /\ Status(ret.arg) = "CANCELLED"
    /\ \E a \in DOMAIN metadata : metadata[a].state = "idle"

\* C10: once a worker has reported the completion or failure of its assigned task over
\* the Bus, the task eventually has the reported terminal status with the worker's
\* result stored.  Stated for a report made while the task is still assigned and its
\* timeout has not run out.
C10_ReportConsumed ==
    \A t \in TaskIds :
        (/\ \E st \in {"COMPLETED", "FAILED"} : <<t, st>> \in reported
         /\ IsRunning(t)
         /\ ~TimedOut(tasks[t]))
        ~> (/\ t \in DOMAIN results
            /\ <<t, results[t].status>> \in reported
            /\ results[t].error # TIMED_OUT
            /\ Status(t) = results[t].status)

\* C11: record_result for a task in the running set removes it from the running set,
\* sets its status to the result's status, stores the result, and sets the worker that
\* was executing the task to idle in the Registry.
C11_RecordResult ==
    [][\A t \in Submitted :
          (/\ IsRunning(t)
           /\ t \notin DictKeys(running_tasks')
           /\ t \in DOMAIN results'
           /\ results'[t].error = None
           /\ tasks'[t].status \in {"COMPLETED", "FAILED"}) =>
              /\ tasks'[t].status = results'[t].status
              /\ get_result(results', t) = results'[t]
              /\ LET w == DictGet(running_tasks, t)
                 IN w \in DOMAIN metadata' => metadata'[w].state = "idle"]_vars

\* C12: whenever a task's status is terminal a result with that status is recorded for
\* it, so that a wait_for_task poll on a terminal task returns that result.
C12_TerminalHasResult ==
    \A t \in Submitted :
        Status(t) \in Terminal =>
            /\ wait_for_task_poll(results, t) # NoResult
            /\ wait_for_task_poll(results, t).status = Status(t)

\* Whether the step removes a worker from the instance table or the Registry.
TerminationStep ==
    \E a \in Agents :
        \/ a \in DOMAIN instances /\ a \notin DOMAIN instances'
        \/ a \in DOMAIN metadata /\ a \notin DOMAIN metadata'

SpawnRaised(a, err) ==
    ret'.op = "spawn_agent" /\ ret'.arg = a /\ ret'.error = err

\* C14: a spawn whose initialize hook raises gives the exception to its
\* caller and leaves the id out of the Registry, without mailboxes and without
\* an instance record; while a spawn is in flight its id is not in the Registry.
C14_FailedSpawnRollsBack ==
    [][\A a \in Agents :
          /\ spawn_pc'[a] = "init" => a \notin Range(agents') /\ a \notin DOMAIN metadata'
          /\ (spawn_pc[a] = "init" /\ SpawnRaised(a, "hook")) =>
                 /\ ~ret'.val
                 /\ a \notin Range(agents')
                 /\ a \notin DOMAIN metadata'
                 /\ a \notin DOMAIN queues'
                 /\ a \notin Range(queue_keys')
                 /\ a \notin DOMAIN instances']_vars

\* A spawn of w1 has just failed in its initialize hook, after the instance
\* and the mailboxes had been created.
C14_Witness ==
    /\ ret = Returned("spawn_agent", "w1", FALSE, "hook")
    /\ spawn_pc["w1"] = "none"
    /\ "w1" \notin DOMAIN instances

C16_FailedTerminateRemoves ==
    [][\A a \in Agents :
          (/\ term_pc[a] \in {"hook", "remove"}
           /\ ret' = Returned("terminate_agent", a, FALSE, None)) =>
              /\ a \notin Range(agents')
              /\ a \notin DOMAIN metadata'
              /\ a \notin DOMAIN queues'
              /\ a \notin DOMAIN instances']_vars

\* The position of a state in INITIALIZING, READY, {BUSY, IDLE},
\* {ERROR, SHUTTING_DOWN}, TERMINATED.
StateRank(st) ==
    CASE st = "INITIALIZING" -> 0
      [] st = "READY" -> 1
      [] st \in {"BUSY", "IDLE"} -> 2
      [] st \in {"ERROR", "SHUTTING_DOWN"} -> 3
      [] st = "TERMINATED" -> 4

\* C17: the state of an instance in the table never moves to an earlier
\* position of that order, TERMINATED is entered only from SHUTTING_DOWN or
\* ERROR, and a TERMINATED instance stays TERMINATED until it is removed.
C17_StateOrder ==
    [][\A a \in DOMAIN instances \cap DOMAIN instances' :
          /\ StateRank(instances'[a]) >= StateRank(instances[a])
          /\ instances[a] = "TERMINATED" => instances'[a] = "TERMINATED"
          /\ (instances'[a] = "TERMINATED" /\ instances[a] # "TERMINATED") =>
                 instances[a] \in {"SHUTTING_DOWN", "ERROR"}]_vars

\* C18: the monitoring loop moves a live instance to ERROR only if its
\* worker has been silent: the worker's last answer to a heartbeat is older
\* than two intervals, or a heartbeat in its mailbox is still unanswered.
C18_AnsweringNotDemoted ==
    [][\A a \in DOMAIN instances \cap DOMAIN instances' :
          (instances[a] \in Alive /\ instances'[a] = "ERROR") =>
              \/ now - agent_heartbeat[a] > HeartbeatInterval * 2
              \/ /\ a \in DOMAIN queues
                 /\ \E i \in 1..Len(queues[a].inbound) :
                        queues[a].inbound[i].msg_type = "HEARTBEAT"]_vars

\* The list a callback or listener belongs to.
ListOf(cb) ==
    IF cb \in Range(StateCallbacks) THEN StateCallbacks
    ELSE IF cb \in Range(ErrorCallbacks) THEN ErrorCallbacks
    ELSE Listeners

\* C19: whichever callbacks and listeners raise, no Lifecycle call ends with
\* what a callback raised, and every notification of the last operation
\* reached the whole list: the first entry of a list is followed by the
\* second, for the same worker and event, and the second follows the first.
C19_CallbacksBestEffort ==
    /\ ret.op \in {"spawn_agent", "terminate_agent"} => ret.error # "callback"
    /\ \A i \in 1..Len(calls) :
          LET c == calls[i]
              l == ListOf(c.cb)
          IN /\ c.cb = l[1] =>
                   /\ i < Len(calls)
                   /\ calls[i + 1] = [c EXCEPT !.cb = l[2]]
             /\ c.cb = l[2] =>
                   /\ i > 1
                   /\ calls[i - 1] = [c EXCEPT !.cb = l[1]]

\* With the first callback and the first listener raising, a spawn of w1
\* has returned its instance after notifying READY and "registered" to both
\* entries of each list.
C19_Witness ==
    /\ {"s1", "l1"} \subseteq throws
    /\ ret = Returned("spawn_agent", "w1", TRUE, None)
    /\ Len(calls) = 4
    /\ calls[1].cb = "s1" /\ calls[2].cb = "s2"
    /\ calls[3].cb = "l1" /\ calls[4].cb = "l2"
    /\ "w1" \in Range(agents)

\* C20: a background loop whose component is running has not left its
\* loop, whatever its iterations raised; the step in which an iteration
\* raises leaves the loop alive, and an iteration noted after it is an
\* iteration of a loop that is alive and running.
C20_LoopSurvives ==
    [][\A l \in Loops :
          /\ Running(l)' => loop_alive'[l]
          /\ (faulted'[l] = "raised" /\ Running(l)) => loop_alive'[l]
          /\ (faulted[l] = "raised" /\ faulted'[l] = "resumed") =>
                 Running(l) /\ loop_alive[l]]_vars

\* Each of the three loops has run an iteration after one that raised, and
\* its component is still running.
C20_Witness ==
    \A l \in Loops : faulted[l] = "resumed" /\ Running(l) /\ loop_alive[l]

\* C21: a thread that holds the lock of the Coordinator or of the Lifecycle
\* Manager holds no lock of the Registry or the Bus, that is, it is not
\* inside one of their methods.
C21_NoLockAcrossCall ==
    \A th \in Threads : \A c \in {"registry", "bus"} :
        ~(locks[HomeOf(th)].owner = th /\ locks[c].owner = th)

\* The registered workers whose metadata lists every name of a list.
Advertising(names) ==
    {a \in Range(agents) : Range(names) \subseteq Range(metadata[a].capabilities)}
Carrying(names) ==
    {a \in Range(agents) : Range(names) \subseteq Range(metadata[a].tags)}

\* C22: find_by_capabilities(names) returns exactly the registered workers
\* that advertise every name (all of them for an empty list), and
\* find_by_tags(names) exactly those that carry every named tag.
C22_FindExact ==
    /\ ret.op = "find_by_capabilities" => ret.val = Advertising(ret.arg)
    /\ ret.op = "find_by_tags" => ret.val = Carrying(ret.arg)

\* A lookup of both "a" and "b" returned the worker registered with both and
\* left out the registered worker that advertises only "a".
C22_Witness ==
    /\ ret.op = "find_by_capabilities"
    /\ ret.arg = <<"a", "b">>
    /\ ret.val = {"w2"}
    /\ "w1" \in Range(agents)
    /\ metadata["w1"].capabilities = <<"a">>

\* C23: a successful unregister(id) leaves id in no index set, and no lookup
\* by capabilities or by tags, whatever its argument, returns an id that is
\* not registered when the lookup is made.
C23_UnregisteredNeverFound ==
    [][/\ (ret'.op = "unregister" /\ ret'.val) =>
              /\ ret'.arg \notin Range(agents')
              /\ \A k \in DOMAIN capabilities_index' : ret'.arg \notin capabilities_index'[k]
              /\ \A k \in DOMAIN tag_index' : ret'.arg \notin tag_index'[k]
       /\ ret'.op \in {"find_by_capabilities", "find_by_tags"} =>
              ret'.val \cap (Agents \ Range(agents')) = {}]_vars

\* Both workers were registered under "a" and under "x" and are unregistered,
\* and a lookup of "a" has returned nothing.
C23_Witness ==
    /\ ret.op = "find_by_capabilities"
    /\ ret.arg = <<"a">>
    /\ ret.val = {}
    /\ agents = <<>>
    /\ "a" \in DOMAIN capabilities_index
    /\ "x" \in DOMAIN tag_index

\* The inbound mailbox of an id, empty if the id has none.
Inbound(a) == IF a \in DOMAIN queues THEN queues[a].inbound ELSE <<>>

\* C24: the messages get_message has returned for a recipient, followed by
\* those still in its inbound mailbox, are the messages put into the mailbox,
\* in the order of the sends: none lost, duplicated or reordered, whoever
\* sent in between.
C24_MailboxFIFO ==
    \A a \in Agents : arrived[a] = got[a] \o Inbound(a)

\* The second worker sent m1 and then m2 to the first, the first worker sent
\* a message of its own in between, and get_message has returned the three
\* in that order.
C24_Witness ==
    /\ ret.op = "get_message"
    /\ got["w1"] = <<BusMessage("m1", "w2", "w1", ""), BusMessage("m1", "w1", "w1", ""),
                     BusMessage("m2", "w2", "w1", "")>>

\* C25: register_agent for an id that has mailboxes returns the pair the Bus
\* holds for it and changes nothing: the queued messages stay and the Bus
\* holds the same pairs under the same keys.
C25_RegisterTwice ==
    [][(ret'.op = "register_agent" /\ ret'.arg \in DOMAIN queues) =>
           /\ ret'.val = queues[ret'.arg]
           /\ queues' = queues
           /\ queue_keys' = queue_keys]_vars

\* A second register_agent has returned a pair that holds a message.
C25_Witness ==
    /\ ret.op = "register_agent"
    /\ ret.val.inbound # <<>>
    /\ queues[ret.arg] = ret.val

\* C26: no inbound and no outbound mailbox holds more messages than the
\* capacity the Bus was constructed with.
C26_MailboxBounded ==
    \A a \in DOMAIN queues :
        /\ Len(queues[a].inbound) <= MaxQueueSize
        /\ Len(queues[a].outbound) <= MaxQueueSize

\* C27: a send to a recipient without mailboxes returns false and changes no
\* mailbox and no history; unregister_agent leaves the id without mailboxes
\* and in no topic's subscriber set; publish and broadcast put nothing into
\* the log of an id without mailboxes and create no mailboxes; register_agent
\* for an id without mailboxes creates an empty pair and no subscription.
C27_UnknownRecipientAndCleanup ==
    [][/\ (ret'.op = "send" /\ ~send_ok(queues, ret'.arg)) =>
              (ret'.val = FALSE /\ queues' = queues /\ history' = history)
       /\ ret'.op = "unregister_agent" =>
              /\ ret'.arg \notin DOMAIN queues'
              /\ \A t \in DOMAIN subscribers' : ret'.arg \notin subscribers'[t]
       /\ ret'.op \in {"publish", "broadcast"} =>
              \A a \in Agents \ DOMAIN queues :
                  a \notin DOMAIN queues' /\ arrived'[a] = arrived[a]
       /\ (ret'.op = "register_agent" /\ ret'.arg \notin DOMAIN queues) =>
              (queues'[ret'.arg] = EmptyQueue /\ subscribers' = subscribers)]_vars

\* A message was sent to the first worker, which was then unregistered
\* and registered again; the topic lost its subscriber to an unregister_agent,
\* and a publish on the topic has reached nobody.
C27_Witness ==
    /\ ret.op = "publish"
    /\ ret.val = 0
    /\ "t" \in DOMAIN subscribers
    /\ subscribers["t"] = {}
    /\ history = <<BusMessage("m1", "w2", "w1", "")>>
    /\ arrived["w1"] = <<>>
    /\ "w1" \in DOMAIN queues
    /\ queues["w1"] = EmptyQueue

\* C28: request returns the reply with its correlation id that was put into
\* the sender's mailbox before the timeout, and None when the send fails or
\* no such reply arrives in time.
C28_RequestReturnsReply ==
    ret.op = "request" =>
        ret.val = (IF request.pc = "returned" THEN request.reply ELSE NoMessage)

\* C29: from_dict(to_dict(m)) raises nothing and gives a message whose id,
\* kind, sender, recipient, timestamp, payload, correlation id and reply-to
\* are those of m.
C29_RoundTrip ==
    ret.op = "round_trip" => (ret.error = None /\ ret.val = ret.arg)

\* The workers that are registered and idle, advertise every required
\* capability of a task and carry every required tag of it.
Eligible(t) ==
    {b \in Range(agents) :
        /\ metadata[b].state = "idle"
        /\ Range(tasks[t].required_capabilities) \subseteq Range(metadata[b].capabilities)
        /\ Range(tasks[t].required_tags) \subseteq Range(metadata[b].tags)}

\* The tasks a step puts into the running set, and the place of a task in
\* the ready list of the pass.
NewlyAssigned == {t \in DictKeys(running_tasks') : t \notin DictKeys(running_tasks)}
PassPos(t) == CHOOSE i \in 1..Len(ready_tasks') : ready_tasks'[i] = t

\* C30: a scheduling pass assigns a task only to a worker that is registered
\* and idle, advertises the task's required capabilities and carries its
\* required tags, and no such worker still free at that point of the pass has
\* a higher score.
C30_SelectedIsBestEligible ==
    [][SchedulePass =>
          \A t \in NewlyAssigned :
              LET a == DictGet(running_tasks', t)
              IN /\ a \in Eligible(t)
                 /\ \A b \in Eligible(t) :
                        \/ Score(CoordState, a) >= Score(CoordState, b)
                        \/ \E u \in NewlyAssigned :
                               /\ DictGet(running_tasks', u) = b
                               /\ PassPos(u) < PassPos(t)]_vars

\* A task that requires "a", "b" and the tag "x" has been assigned to the
\* second worker, which has them, while the first worker, registered before
\* it and idle, advertises only "a".
C30_Witness ==
    /\ sched_pc = "monitor"
    /\ agents = <<"w1", "w2">>
    /\ metadata["w1"].state = "idle"
    /\ metadata["w1"].capabilities = <<"a">>
    /\ \E t \in DOMAIN tasks :
           /\ tasks[t].required_capabilities = <<"a", "b">>
           /\ tasks[t].required_tags = <<"x">>
           /\ tasks[t].status = "ASSIGNED"
           /\ DictKeys(running_tasks) = {t}
           /\ DictGet(running_tasks, t) = "w2"

\* A task that waits in the pending queue with status PENDING and satisfied
\* dependencies while a registered idle worker has what it requires and the
\* running set is below the concurrency limit.
Waiting(t) ==
    /\ t \in DOMAIN tasks
    /\ t \in Range(pending_tasks)
    /\ tasks[t].status = "PENDING"
    /\ are_dependencies_satisfied(CoordState, tasks[t])
    /\ Eligible(t) # {}
    /\ Len(running_tasks) < max_concurrent_tasks

\* C31: a ready PENDING task for which an eligible idle worker exists while
\* the concurrency limit leaves capacity does not wait forever: the scheduler
\* loop eventually assigns it (or the worker or the capacity goes away), also
\* while ready tasks of higher priority have no eligible worker.
C31_WaitingTaskAssigned ==
    \A t \in TaskIds : Waiting(t) ~> ~Waiting(t)

\* A monitoring pass, and the tasks it takes out of the running set.
MonitorPass == sched_pc = "monitor" /\ sched_pc' = "schedule"
Expired == {t \in DictKeys(running_tasks) : t \notin DictKeys(running_tasks')}

\* C32: a monitoring pass that times out a running task with retries left
\* adds one to its retry count, clears its worker and puts it back into the
\* pending queue with status PENDING; with no retries left it finalizes the
\* task FAILED with the error "Task timed out"; in both cases the former
\* worker is idle in the Registry.
C32_TimeoutRetriesOrFails ==
    [][MonitorPass =>
          \A t \in Expired :
              LET a == DictGet(running_tasks, t)
              IN /\ a \in DOMAIN metadata' => metadata'[a].state = "idle"
                 /\ IF tasks[t].retry_count < tasks[t].max_retries
                    THEN /\ tasks'[t].retry_count = tasks[t].retry_count + 1
                         /\ tasks'[t].assigned_to = None
                         /\ t \in Range(pending_tasks')
                         /\ tasks'[t].status = "PENDING"
                    ELSE /\ tasks'[t].status = "FAILED"
                         /\ t \in DOMAIN results'
                         /\ results'[t].status = "FAILED"
                         /\ results'[t].error = TIMED_OUT]_vars

\* C33: a monitoring pass times out a running task only when more time than
\* the task's timeout has passed since its current assignment, however long
\* the task waited in the pending queue before.
C33_TimeoutSinceAssignment ==
    [][MonitorPass =>
          \A t \in Expired : now - assigned_at[t] > tasks[t].timeout]_vars

\* The ids broadcast and publish have to reach: every id with mailboxes
\* (the sender apart when it is excluded), and the subscribers of the topic
\* that have mailboxes.
BroadcastTargets(call) ==
    {a \in DOMAIN queues : ~(call.exclude_sender /\ a = call.message.sender_id)}
PublishTargets(call) ==
    {a \in DOMAIN queues : call.topic \in DOMAIN subscribers /\ a \in subscribers[call.topic]}

\* The inbound mailbox of an id has grown by one message.
OneMore(a) ==
    /\ Len(queues'[a].inbound) = Len(queues[a].inbound) + 1
    /\ SubSeq(queues'[a].inbound, 1, Len(queues[a].inbound)) = queues[a].inbound
Last(s) == s[Len(s)]

\* C34: broadcast puts one copy, the recipient rewritten and every other
\* field equal to the original's, into the inbound mailbox of every id with
\* mailboxes (the sender apart when excluded) and into no other; publish
\* puts one copy that carries the topic into the mailboxes of exactly the
\* subscribers with mailboxes; each returns the number delivered.
C34_CastCopies ==
    [][/\ ret'.op = "broadcast" =>
              LET call == ret'.arg
              IN /\ ret'.error = None
                 /\ ret'.val = Cardinality(BroadcastTargets(call))
                 /\ \A a \in DOMAIN queues :
                        IF a \in BroadcastTargets(call)
                        THEN /\ OneMore(a)
                             /\ Last(queues'[a].inbound) =
                                    [call.message EXCEPT !.recipient_id = a]
                        ELSE queues'[a].inbound = queues[a].inbound
       /\ ret'.op = "publish" =>
              LET call == ret'.arg
              IN /\ ret'.error = None
                 /\ ret'.val = Cardinality(PublishTargets(call))
                 /\ \A a \in DOMAIN queues :
                        IF a \in PublishTargets(call)
                        THEN /\ OneMore(a)
                             /\ Last(queues'[a].inbound).msg_id = call.message.msg_id
                             /\ Last(queues'[a].inbound).recipient_id = a
                             /\ <<"topic", call.topic>> \in Last(queues'[a].inbound).payload
                        ELSE queues'[a].inbound = queues[a].inbound]_vars

\* The registered workers last seen longer ago than a timeout.
Stale(timeout) == {a \in Range(agents) : now - last_seen[a] > timeout}
Indexed(index) == UNION {index[k] : k \in DOMAIN index}

\* C35: cleanup_stale_agents(timeout) raises nothing, returns the ids of all
\* the workers last seen longer ago than the timeout, removes exactly those
\* from the Registry and from both indexes, and leaves every other worker as
\* it was.
C35_CleanupRemovesStale ==
    [][ret'.op = "cleanup_stale_agents" =>
          LET gone == Stale(ret'.arg)
          IN /\ ret'.error = None
             /\ Range(ret'.val) = gone
             /\ agents' = SelectSeq(agents, LAMBDA a : a \notin gone)
             /\ DOMAIN metadata' = DOMAIN metadata \ gone
             /\ \A a \in DOMAIN metadata' : metadata'[a] = metadata[a]
             /\ Indexed(capabilities_index') = Indexed(capabilities_index) \ gone
             /\ Indexed(tag_index') = Indexed(tag_index) \ gone]_vars

\* The messages the relay loop has passed to send for a sender, those of
\* them a recipient's mailbox took in, and a recipient's arrivals from a
\* sender.
SentBy(a) ==
    LET calls_a == SelectSeq(relayed, LAMBDA c : c.msg.sender_id = a)
    IN [i \in 1..Len(calls_a) |-> calls_a[i].msg]
TakenIn(a, r) ==
    LET calls_ar == SelectSeq(relayed, LAMBDA c : c.msg.sender_id = a /\ c.msg.recipient_id = r /\ c.ok)
    IN [i \in 1..Len(calls_ar) |-> calls_ar[i].msg]
ArrivedFrom(a, r) == SelectSeq(arrived[r], LAMBDA m : m.sender_id = a)
Outbound(a) == IF a \in DOMAIN queues THEN queues[a].outbound ELSE <<>>

\* A pass of the relay takes messages from the head of the outbound
\* mailboxes and passes exactly those to send; nothing else shortens an
\* outbound mailbox.
RelayTakesHeads ==
    [][\A a \in DOMAIN queues :
           /\ a \in DOMAIN queues'
           /\ \/ SentBy(a)' = SentBy(a) /\ Outbound(a) = SubSeq(Outbound(a)', 1, Len(Outbound(a)))
              \/ /\ Outbound(a) # <<>>
                 /\ SentBy(a)' = Append(SentBy(a), Head(Outbound(a)))
                 /\ Outbound(a)' = Tail(Outbound(a))]_vars

\* send takes a relayed message in exactly when its recipient has mailboxes,
\* and a recipient's arrivals from a sender are the messages send took in
\* for the pair, once each and in the order they were passed.
ArrivesOnceInOrder ==
    /\ [][\A i \in Len(relayed) + 1..Len(relayed') :
              relayed'[i].ok = (relayed'[i].msg.recipient_id \in DOMAIN queues)]_vars
    /\ [](\A a \in Agents, r \in Agents : ArrivedFrom(a, r) = TakenIn(a, r))

LoopPass ==
    \/ sched_pc = "schedule" /\ sched_pc' = "monitor"
    \/ sched_pc = "monitor" /\ sched_pc' = "sleep"

\* C37: once stop has returned, the scheduler loop makes no scheduling and
\* no monitoring pass until start is called again, wherever in its iteration
\* the loop was when stop was called.
C37_NoPassAfterStop ==
    [][stopped => ~LoopPass]_vars

\* C38: however the terminate calls of several callers for one live
\* instance interleave, the instance's shutdown hook runs at most once and
\* at most one call returns True; once every call has returned after the
\* hook has run, exactly one has returned True.
C38_TerminateOnce ==
    \A a \in Agents :
        /\ term_calls[a].hooks <= 1
        /\ term_calls[a].succeeded <= 1
        /\ (term_calls[a].hooks > 0 /\ \A c \in Callers : term_calls[a].pc[c] = "none")
               => term_calls[a].succeeded = 1

\* C39: a spawn_agent call that fails, whatever the reason, leaves the
\* Registry, the Bus and the instance table as they were before the call:
\* the Registry entry, the mailboxes with their queued messages and the
\* topic subscriptions the id already had are still there.
SpawnFailed == ret'.op = "spawn_agent" /\ ~ret'.val
C39_FailedSpawnChangesNothing ==
    [][SpawnFailed => UNCHANGED <<agents, metadata, capabilities_index, tag_index, queues,
                                  queue_keys, subscribers, instances>>]_vars

\* C40: no scheduling pass assigns a task to a worker whose Lifecycle
\* instance is in state ERROR, SHUTTING_DOWN or TERMINATED, be it demoted by
\* the heartbeat monitor or in the middle of its termination.
Demoted == {"ERROR", "SHUTTING_DOWN", "TERMINATED"}
C40_NoAssignmentToDemoted ==
    [][SchedulePass =>
           \A t \in NewlyAssigned :
               LET a == DictGet(running_tasks', t)
               IN a \in DOMAIN instances => instances[a] \notin Demoted]_vars

\* ------------------------------------------------------------ specifications
NoDeps == {<<>>}
DepLists(t) == {<<>>} \cup {<<d>> : d \in TaskIds \ {t}}

\* The caller, the scheduler loop and the clock; P, C: the priorities and
\* capability lists submitted tasks are drawn from; deps: whether tasks
\* are submitted with dependencies.
Coordinator(P, C, deps) ==
    \/ Tick
    \/ \E t \in TaskIds, prio \in P, to \in Timeouts, mr \in 0..MaxRetries :
          \E d \in (IF deps THEN DepLists(t) ELSE NoDeps), caps \in C, tgs \in TagLists :
              SubmitTask(t, prio, to, mr, d, caps, tgs)
    \/ ScheduleTasks
    \/ MonitorTasks
    \/ \E t \in TaskIds, st \in {"COMPLETED", "FAILED"}, a \in Agents : RecordResult(t, st, a)

Cancel == \E t \in TaskIds : CancelTask(t)
Spawn(W) == \E a \in W : SpawnAgent(TypeOf(a), a, <<>>)
Terminate == \E a \in Agents, ok \in BOOLEAN : TerminateAgent(a, ok)
Worker == \E a \in Agents, ok \in BOOLEAN : WorkerHandle(a, ok)

\* Scheduling with dependencies, retries, results and cancellation.
Next == Coordinator({1}, {<<>>}, TRUE) \/ Cancel \/ Spawn(Agents)

Spec == Init /\ [][Next]_vars

\* Scheduling with priorities and capability requirements.
NextPrio == Coordinator(Priorities, CapLists, FALSE) \/ Spawn(Agents)

SpecPrio == Init /\ [][NextPrio]_vars

\* Scheduling over a fleet whose workers are terminated and spawned again.
NextFleet == Coordinator({1}, {<<>>}, FALSE) \/ Spawn(Agents) \/ Terminate

SpecFleet == InitWith({MaxLimit}) /\ [][NextFleet]_vars

\* Workers answering their assignments over the Bus.
NextBus == Coordinator({1}, {<<>>}, FALSE) \/ Spawn({"w1"}) \/ Worker \/ DeliveryLoop

\* The scheduler loop, the relay loop and the clock keep running.
SpecBus ==
    /\ InitWith({1})
    /\ [][NextBus]_vars
    /\ WF_vars(ScheduleTasks) /\ WF_vars(MonitorTasks) /\ WF_vars(DeliveryLoop) /\ WF_vars(Tick)

\* Callers of the Lifecycle Manager whose spawn and terminate calls overlap.
Life ==
    \/ \E a \in Agents : \E type \in {TypeOf(a), "unknown"} : SpawnBegin(type, a)
    \/ \E a \in Agents, ok \in BOOLEAN : SpawnFinish(a, ok)
    \/ \E a \in Agents, graceful \in BOOLEAN : TerminateBegin(a, graceful)
    \/ \E a \in Agents, ok \in BOOLEAN : TerminateHook(a, ok)
    \/ \E a \in Agents : TerminateRemove(a)

NextLife == Life

\* Any set of the callbacks and listeners may raise.
InitThrowing == CoordInit({1}) /\ LifeInit(ThrowSets) /\ AuxInit

SpecLife == InitThrowing /\ [][NextLife]_vars

\* Workers that are spawned, answer what their mailbox holds and are watched
\* by the monitoring loop; the relay delivers their replies.
Answering ==
    \E a \in Agents :
        a \in DOMAIN queues /\ Len(queues[a].outbound) < MaxInbox /\ WorkerHandle(a, TRUE)

NextMonitor ==
    \/ \E a \in Agents : SpawnBegin(TypeOf(a), a)
    \/ \E a \in Agents : SpawnFinish(a, TRUE)
    \/ MonitorHeartbeats
    \/ Answering
    \/ DeliveryLoop
    \/ LifeTick

SpecMonitor == InitThrowing /\ [][NextMonitor]_vars

\* The three background loops with iterations that raise, and the
\* components being stopped.
NextLoops ==
    \/ \E mr \in 0..MaxRetries : SubmitTask(1, 1, 0, mr, <<>>, <<>>, <<>>)
    \/ Spawn({"w1"})
    \/ Tick
    \/ ScheduleTasks
    \/ MonitorTasks
    \/ Answering
    \/ DeliveryLoop
    \/ MonitorHeartbeats
    \/ \E l \in Loops : LoopFault(l)
    \/ \E l \in Loops : StopComponent(l)
    \/ \E l \in Loops : LoopExit(l)

SpecLoops == InitWith({1}) /\ [][NextLoops]_vars

\* The scheduler thread, the monitoring thread and a caller of spawn_agent
\* entering and leaving the components' locks.
NextLocks == \E th \in Threads : LockStep(th)

SpecLocks == InitWith({1}) /\ [][NextLocks]_vars


\* Clients registering, unregistering and looking up workers in the Registry.
NextRegistry ==
    \/ \E a \in Agents : \E type \in AgentTypes : \E tgs \in RegistryTags :
           RegistryRegister(a, type, tgs)
    \/ \E a \in Agents : RegistryUnregister(a)
    \/ \E caps \in CapQueries : FindByCapabilities(caps)
    \/ \E tgs \in TagQueries : FindByTags(tgs)

SpecRegistry == InitWith({1}) /\ [][NextRegistry]_vars

\* Clients calling the Bus: registration, subscription, the three ways of
\* sending, and reading a mailbox.
NextMailbox ==
    \/ \E a \in Agents : BusRegister(a)
    \/ \E a \in Agents : BusUnregister(a)
    \/ \E a \in Agents : \E topic \in Topics : Subscribe(a, topic)
    \/ \E msg \in Outgoing : BusSend(msg)
    \/ \E msg \in Announcements : Broadcast(msg)
    \/ \E msg \in Announcements : \E topic \in Topics : Publish(topic, msg)
    \/ \E a \in Agents : GetMessage(a)
    \/ \E msg \in Announcements : SendMessage(msg)

SpecMailbox == InitWith({1}) /\ [][NextMailbox]_vars

\* A client calling request while the workers register, unregister and reply.
NextRequest ==
    \/ \E a \in Agents : BusRegister(a)
    \/ \E a \in Agents : BusUnregister(a)
    \/ \E msg \in Requests : \E timeout \in RequestTimeouts : RequestBegin(msg, timeout)
    \/ \E a \in Agents : Reply(a)
    \/ RequestReturn
    \/ LifeTick

SpecRequest == InitWith({1}) /\ [][NextRequest]_vars

\* Messages built by clients, copied by broadcast, and converted to wire
\* form and back.
NextMessage ==
    \/ RoundTrip
    \/ \E a \in Agents : ReceiveBroadcast(a)

\* A client holds any one of the messages.
InitMessages == CoordInit({1}) /\ LifeInit({{}}) /\ AuxInitWith(Messages)

SpecMessage == InitMessages /\ [][NextMessage]_vars

\* The requirements tasks are submitted with, as <<capabilities, tags>>, and
\* the <<type, tags>> workers are spawned with.
TaskKinds == {<<<<>>, <<>>>>, <<<<"a">>, <<>>>>, <<<<"a", "b">>, <<"x">>>>}
WorkerKinds == {<<"skilled", <<>>>>, <<"expert", <<>>>>, <<"expert", <<"x">>>>}

\* Scheduling tasks with required capabilities and tags over workers of
\* different classes and tags that report results and are replaced.
NextSelect ==
    \/ \E t \in TaskIds, k \in TaskKinds : SubmitTask(t, 1, 1, 1, <<>>, k[1], k[2])
    \/ ScheduleTasks
    \/ MonitorTasks
    \/ \E t \in TaskIds, st \in {"COMPLETED", "FAILED"}, a \in Agents : RecordResult(t, st, a)
    \/ \E a \in Agents, k \in WorkerKinds : SpawnAgent(k[1], a, k[2])
    \/ \E a \in Agents : TerminateAgent(a, TRUE)

SpecSelect == InitWith({MaxLimit}) /\ [][NextSelect]_vars

\* Scheduling with priorities and capability requirements under a scheduler
\* loop that keeps iterating; the workers complete what they are assigned.
NextWait ==
    \/ \E t \in TaskIds, prio \in Priorities, caps \in CapLists :
           SubmitTask(t, prio, 1, 0, <<>>, caps, <<>>)
    \/ ScheduleTasks
    \/ MonitorTasks
    \/ \E t \in TaskIds, a \in Agents : RecordResult(t, "COMPLETED", a)
    \/ Spawn(Agents)

SpecWait ==
    /\ InitWith({1})
    /\ [][NextWait]_vars
    /\ WF_vars(ScheduleTasks) /\ WF_vars(MonitorTasks)

\* Tasks with timeouts that wait for a worker while the clock runs; the time
\* of every assignment is written down.
TaskTimeouts == {0, 1}

NextClock ==
    \/ Tick
    \/ \E t \in TaskIds, to \in TaskTimeouts, mr \in 0..MaxRetries :
           SubmitTask(t, 1, to, mr, <<>>, <<>>, <<>>)
    \/ ScheduleTasksTimed
    \/ MonitorTasks
    \/ \E t \in TaskIds, a \in Agents : RecordResult(t, "COMPLETED", a)
    \/ Spawn({"w1"})

SpecClock == InitWith({1}) /\ [][NextClock]_vars

\* Clients registering, subscribing, reading their mailboxes, and casting
\* messages to many recipients.
NextCast ==
    \/ \E a \in Agents : BusRegister(a)
    \/ \E a \in Agents : BusUnregister(a)
    \/ \E a \in Agents : \E topic \in Topics : Subscribe(a, topic)
    \/ \E msg \in Casts : \E exclude_sender \in BOOLEAN : BroadcastMessage(msg, exclude_sender)
    \/ \E msg \in Casts : \E topic \in Topics : PublishMessage(topic, msg)
    \/ \E a \in Agents : GetMessage(a)

SpecCast == InitWith({1}) /\ [][NextCast]_vars

\* Clients registering workers, reporting their state and cleaning the
\* Registry up while the clock runs.
NextStale ==
    \/ \E a \in Agents : \E tgs \in {<<>>, <<"x">>} : RegisterSeen(a, TypeOf(a), tgs)
    \/ \E a \in Agents : \E st \in {"idle", "busy"} : UpdateAgentState(a, st)
    \/ \E a \in Agents : RegistryUnregister(a)
    \/ \E timeout \in StaleTimeouts : CleanupStale(timeout)
    \/ LifeTick

SpecStale == InitWith({1}) /\ [][NextStale]_vars

\* Workers that register, place messages for each other in their outbound
\* mailboxes and read their inbound mailboxes, under a relay loop that keeps
\* running.
Letters == {BusMessage(id, sender, recipient, "") :
                id \in MsgIds, sender \in Agents, recipient \in Agents}
Placed == Len(relayed) + Len(Outbound("w1")) + Len(Outbound("w2"))

NextRelay ==
    \/ \E a \in Agents : BusRegister(a)
    \/ \E msg \in Letters : Placed < MaxPlaced /\ SendMessage(msg)
    \/ DeliveryLoopLogged
    \/ \E a \in Agents : GetMessage(a)

SpecRelay == InitWith({1}) /\ [][NextRelay]_vars /\ WF_vars(DeliveryLoopLogged)

\* A Coordinator that is stopped and started again while tasks are
\* submitted and the clock runs; submit_task takes the Coordinator's lock.
NextStop ==
    \/ SchedulerTest
    \/ SchedulerSchedule
    \/ SchedulerMonitor
    \/ SchedulerWake
    \/ StopBegin
    \/ StopReturn
    \/ Start
    \/ \E mr \in 0..MaxRetries : LockFree /\ SubmitTask(1, 1, 0, mr, <<>>, <<>>, <<>>)
    \/ Spawn({"w1"})
    \/ Tick

SpecStop == InitWith({1}) /\ [][NextStop]_vars

\* Workers that are spawned once and terminated by callers whose calls overlap.
NextTwice ==
    \/ \E a \in Agents : term_calls[a] = NoCalls /\ SpawnAgent(TypeOf(a), a, <<>>)
    \/ \E c \in Callers, a \in Agents, graceful \in BOOLEAN : TerminateCallBegin(c, a, graceful)
    \/ \E c \in Callers, a \in Agents : TerminateCallHook(c, a)
    \/ \E c \in Callers, a \in Agents : TerminateCallRemove(c, a)

SpecTwice == InitWith({1}) /\ [][NextTwice]_vars

\* Clients registering ids with the Registry and the Bus, subscribing and
\* sending, and callers spawning workers under those ids.
Queued == {BusMessage("m1", "w2", recipient, "") : recipient \in Agents}
NextFailed ==
    \/ \E a \in Agents : BusRegister(a)
    \/ \E a \in Agents : \E topic \in Topics : Subscribe(a, topic)
    \/ \E msg \in Queued : Load < MaxQueued /\ BusSend(msg)
    \/ \E a \in Agents : RegistryRegister(a, TypeOf(a), <<>>)
    \/ \E type \in SpawnTypes, a \in Agents, init_ok \in BOOLEAN : SpawnAgentCall(type, a, init_ok)

SpecFailed == InitWith({1}) /\ [][NextFailed]_vars

\* A worker that is spawned, watched by the heartbeat monitor and terminated
\* step by step while tasks are submitted and scheduled.
NextDemoted ==
    \/ SpawnBegin(TypeOf("w1"), "w1")
    \/ SpawnFinish("w1", TRUE)
    \/ \E graceful \in BOOLEAN : TerminateBegin("w1", graceful)
    \/ TerminateHook("w1", TRUE)
    \/ TerminateRemove("w1")
    \/ MonitorHeartbeats
    \/ LifeTick
    \/ \E t \in TaskIds : SubmitTask(t, 1, 0, 0, <<>>, <<>>, <<>>)
    \/ ScheduleTasks
    \/ MonitorTasks

SpecDemoted == InitWith({1}) /\ [][NextDemoted]_vars

====
